---- MODULE Spec2Model ----
(***************************************************************************)
(* A model of the KarpelesLab/jwt package: the algorithm registry and its  *)
(* package-level initialisation, the Token object (New, ParseString,       *)
(* Header, Payload, SetRawPayload, Sign, Verify) and the verification      *)
(* options (VerifyAlgo, VerifySignature, VerifyExpiresAt, VerifyNotBefore, *)
(* VerifyTime, VerifyMultiple).                                            *)
(*                                                                         *)
(* Strings are sequences of characters.  A character is a number: 0..63 is *)
(* the base64url symbol with that sextet value, Dot is '.', BadChar is a   *)
(* character outside the alphabet ('!', '='), NewLine is '\n'.             *)
(* Byte strings are sequences of 0..255.                                   *)
(***************************************************************************)
EXTENDS Integers, Sequences, FiniteSets, TLC

----------------------------------------------------------------------------
(* Characters *)

Sextets == 0..63
Dot     == 64
BadChar == Dot + 1
NewLine == Dot + 2

----------------------------------------------------------------------------
(* encoding/base64 RawURLEncoding, as used by token.go                      *)

\* RawURLEncoding.EncodeToString: 3 bytes -> 4 symbols, no padding; the last
\* symbol of a partial group carries zero bits below the data.
EncodeToString(b) ==
  LET B(k) == IF k <= Len(b) THEN b[k] ELSE 0
      sym(j) ==
        LET g == (j - 1) \div 4
            pos == (j - 1) % 4 IN
        CASE pos = 0 -> B(3 * g + 1) \div 4
          [] pos = 1 -> (B(3 * g + 1) % 4) * 16 + (B(3 * g + 2) \div 16)
          [] pos = 2 -> (B(3 * g + 2) % 16) * 4 + (B(3 * g + 3) \div 64)
          [] OTHER   -> B(3 * g + 3) % 64 IN
  [j \in 1..((Len(b) * 4 + 2) \div 3) |-> sym(j)]

\* The decoder skips '\r' and '\n' before anything else.
StripNewLines(s) == SelectSeq(s, LAMBDA c : c # NewLine)

\* Whole quanta, then the tail: 2 symbols give 1 byte, 3 symbols give 2 bytes,
\* and the unused low bits of the last symbol are ignored (the encoding is not
\* Strict()); 1 symbol alone is corrupt input.
DecodeQuanta(s) ==
  LET S(j) == IF j <= Len(s) THEN s[j] ELSE 0
      byte(k) ==
        LET g == (k - 1) \div 3
            pos == (k - 1) % 3 IN
        CASE pos = 0 -> S(4 * g + 1) * 4 + (S(4 * g + 2) \div 16)
          [] pos = 1 -> (S(4 * g + 2) % 16) * 16 + (S(4 * g + 3) \div 4)
          [] OTHER   -> (S(4 * g + 3) % 4) * 64 + S(4 * g + 4) IN
  [k \in 1..((Len(s) * 3) \div 4) |-> byte(k)]

\* RawURLEncoding.DecodeString: [ok, bytes]; ok = FALSE is CorruptInputError.
DecodeString(str) ==
  LET decode(s) ==
        IF (\E i \in 1..Len(s) : s[i] \notin Sextets) \/ Len(s) % 4 = 1
        THEN [ok |-> FALSE, bytes |-> << >>]
        ELSE [ok |-> TRUE, bytes |-> DecodeQuanta(s)] IN
  decode(StripNewLines(str))

----------------------------------------------------------------------------
(* encoding/json, at token granularity: one byte of a JSON text stands for *)
(* one lexical token.  A text is a value; an object is                     *)
(*     open (string value)* close                                          *)
(* and the other values are single tokens: a string, a number, null, an    *)
(* array.  A byte that is no token of TokenTable is a syntax error.        *)

\* int64 values are drawn from two windows: "unix", the values n around 0 (the
\* Unix epoch), and "year1", the values -62135596800 + n around the second in
\* which time.Time is zero.  A number token is the decimal literal of such an
\* integer (NumTok), or that literal followed by ".5" (FloatTok "frac": a
\* fraction, which truncates to the integer) or by "e0" (FloatTok "exp": an
\* exponent, the same number).
Tk(t, s, w, n) == [t |-> t, s |-> s, w |-> w, n |-> n]
StrTok(s)  == Tk("str", s, "", 0)
NumTok(w, n) == Tk("num", "", w, n)
FloatTok(f, w, n) == Tk("num", f, w, n)
OpenTok    == Tk("open", "", "", 0)
CloseTok   == Tk("close", "", "", 0)
NullTok    == Tk("null", "", "", 0)
ArrTok     == Tk("arr", "", "", 0)

\* The strings that occur in headers and payloads of the model.
Vocabulary ==
  << "alg", "cty", "exp", "iss", "nbf",
     "HS256", "HS384", "HS512", "RS256", "RS384", "RS512",
     "PS256", "PS384", "PS512", "ES224", "ES256", "ES384", "ES512", "ES256K",
     "EdDSA", "EDDSA", "none", "", "XX", "myself", "text", "text/plain" >>

MaxSec == 1
Windows == {"unix", "year1"}
Offsets == (0 - MaxSec)..MaxSec

NumList ==
  LET offs == [i \in 1..(2 * MaxSec + 1) |-> i - 1 - MaxSec] IN
  [i \in 1..(2 * Len(offs)) |->
      IF i <= Len(offs) THEN NumTok("unix", offs[i])
      ELSE NumTok("year1", offs[i - Len(offs)])]

FloatList ==
  [i \in 1..(2 * Len(NumList)) |->
      IF i <= Len(NumList) THEN FloatTok("frac", NumList[i].w, NumList[i].n)
      ELSE FloatTok("exp", NumList[i - Len(NumList)].w, NumList[i - Len(NumList)].n)]

TokenTable ==
  << OpenTok, CloseTok, NullTok, ArrTok >>
  \o [i \in 1..Len(Vocabulary) |-> StrTok(Vocabulary[i])]
  \o NumList
  \o FloatList

TokByte(tok) == CHOOSE i \in 1..Len(TokenTable) : TokenTable[i] = tok
IsTok(b) == b \in 1..Len(TokenTable)
\* A byte that is not a token: any text holding it is not valid JSON.
JunkByte == Len(TokenTable) + 1

IsValueTok(k) == k.t \in {"str", "num", "null", "arr"}

\* The length of the first JSON value of the text b, 0 when b does not start
\* with a complete value (a syntax error).
RECURSIVE MembersEnd(_, _)
MembersEnd(b, i) ==
  \* i: position of the next key or of the closing token; result: the position
  \* of the closing token, or 0
  IF i > Len(b) \/ ~IsTok(b[i]) THEN 0
  ELSE IF TokenTable[b[i]].t = "close" THEN i
  ELSE IF TokenTable[b[i]].t # "str" THEN 0
  ELSE IF i + 1 > Len(b) \/ ~IsTok(b[i + 1]) THEN 0
  ELSE IF ~IsValueTok(TokenTable[b[i + 1]]) THEN 0
  ELSE MembersEnd(b, i + 2)

ValueLen(b) ==
  IF Len(b) = 0 \/ ~IsTok(b[1]) THEN 0
  ELSE IF IsValueTok(TokenTable[b[1]]) THEN 1
  ELSE IF TokenTable[b[1]].t = "open" THEN MembersEnd(b, 2)
  ELSE 0

EmptyMap == [k \in {} |-> NullTok]
Put(m, k, v) == [x \in DOMAIN m \cup {k} |-> IF x = k THEN v ELSE m[x]]

\* The members of the object text b[1..n] as a map from key to value token; a
\* repeated key keeps its last value.
RECURSIVE Members(_, _, _)
Members(b, i, m) ==
  IF TokenTable[b[i]].t = "close" THEN m
  ELSE Members(b, i + 2, Put(m, TokenTable[b[i]].s, TokenTable[b[i + 1]]))

\* Header values are strings: the Go type is map[string]string.
EmptyHeader == [k \in {} |-> ""]

\* json.Unmarshal(str, &tok.header) on a nil tok.header:
\*   [err, set, m]: err is the error returned, set tells whether tok.header was
\*   made a (non-nil) map, m is that map.
\* A text that is not valid JSON, or that has anything after the value, fails
\* in checkValid before anything is stored.  A value that is not an object is an
\* UnmarshalTypeError and stores nothing; null stores nil without error.  For an
\* object the map is allocated first; a member whose value is not a string is an
\* UnmarshalTypeError, the member is stored as "" and decoding goes on.
UnmarshalHeader(b) ==
  LET object(mem) ==
        [err |-> IF \E k \in DOMAIN mem : mem[k].t \in {"num", "arr"} THEN "type" ELSE "nil",
         set |-> TRUE,
         m   |-> [k \in DOMAIN mem |-> IF mem[k].t = "str" THEN mem[k].s ELSE ""]]
      value(n) ==
        IF n = 0 \/ n # Len(b) THEN [err |-> "syntax", set |-> FALSE, m |-> EmptyHeader]
        ELSE IF TokenTable[b[1]].t = "null" THEN [err |-> "nil", set |-> FALSE, m |-> EmptyHeader]
        ELSE IF TokenTable[b[1]].t # "open" THEN [err |-> "type", set |-> FALSE, m |-> EmptyHeader]
        ELSE object(Members(b, 2, EmptyMap)) IN
  value(ValueLen(b))

\* Payload values (Go's any): a string, an int64 or a float64 set by the
\* program, a json.Number read by the decoder (UseNumber), nil, an array.  A
\* json.Number is the text of its literal; a float64 is the integer (s = "") or
\* the integer and a half, away from zero (s = "frac").
Val(t, s, w, n) == [t |-> t, s |-> s, w |-> w, n |-> n]
StrVal(s)      == Val("string", s, "", 0)
Int64Val(w, n) == Val("int64", "", w, n)
Float64Val(f, w, n) == Val("float64", f, w, n)
NumberVal(w, n) == Val("json.Number", "", w, n)
NilVal         == Val("nil", "", "", 0)
ArrVal         == Val("array", "", "", 0)
EmptyPayload   == [k \in {} |-> NilVal]

TokToVal(k) ==
  CASE k.t = "str"  -> StrVal(k.s)
    [] k.t = "num"  -> Val("json.Number", k.s, k.w, k.n)
    [] k.t = "null" -> NilVal
    [] OTHER        -> ArrVal

ValToTok(v) ==
  CASE v.t = "string" -> StrTok(v.s)
    [] v.t \in {"int64", "json.Number", "float64"} -> FloatTok(v.s, v.w, v.n)
    [] v.t = "nil" -> NullTok
    [] OTHER -> ArrTok

\* json.NewDecoder(...).UseNumber().Decode(&tok.payload) on a nil tok.payload:
\* the decoder reads the first value of the stream and leaves what follows it.
DecodePayload(b) ==
  LET object(mem) ==
        [err |-> "nil", set |-> TRUE, m |-> [k \in DOMAIN mem |-> TokToVal(mem[k])]]
      value(n) ==
        IF n = 0 THEN [err |-> "syntax", set |-> FALSE, m |-> EmptyPayload]
        ELSE IF TokenTable[b[1]].t = "null" THEN [err |-> "nil", set |-> FALSE, m |-> EmptyPayload]
        ELSE IF TokenTable[b[1]].t # "open" THEN [err |-> "type", set |-> FALSE, m |-> EmptyPayload]
        ELSE object(Members(b, 2, EmptyMap)) IN
  value(ValueLen(b))

\* json.Marshal of a map writes the members in the order of the sorted keys.
KeyOrder == << "alg", "cty", "exp", "iss", "nbf" >>

RECURSIVE MarshalMembers(_, _, _)
MarshalMembers(m, i, isHeader) ==
  IF i > Len(KeyOrder) THEN << >>
  ELSE (IF KeyOrder[i] \in DOMAIN m
        THEN << TokByte(StrTok(KeyOrder[i])),
                TokByte(IF isHeader THEN StrTok(m[KeyOrder[i]])
                        ELSE ValToTok(m[KeyOrder[i]])) >>
        ELSE << >>)
       \o MarshalMembers(m, i + 1, isHeader)

MarshalHeader(h) ==
  << TokByte(OpenTok) >> \o MarshalMembers(h, 1, TRUE) \o << TokByte(CloseTok) >>
MarshalPayload(p) ==
  << TokByte(OpenTok) >> \o MarshalMembers(p, 1, FALSE) \o << TokByte(CloseTok) >>

----------------------------------------------------------------------------
(* Algorithms and the registry (algo.go)                                    *)

\* An Algo value: the concrete type and its value.  hmacAlgo, rsaAlgo and
\* rsaPssAlgo are a crypto.Hash (h), ecdsaAlgo is an int (n).
Algo(fam, h, n) == [fam |-> fam, h |-> h, n |-> n]
NilAlgo == Algo("nil", "", 0)

\* The package-level variables of algo.go, in declaration order, and their
\* initialisers.
DeclOrder ==
  << "HS256", "HS384", "HS512", "RS256", "RS384", "RS512",
     "PS256", "PS384", "PS512", "ES224", "ES256", "ES384", "ES512", "ES256K",
     "EdDSA", "None" >>

Initializer ==
  [ HS256 |-> Algo("hmacAlgo", "SHA256", 0),
    HS384 |-> Algo("hmacAlgo", "SHA384", 0),
    HS512 |-> Algo("hmacAlgo", "SHA512", 0),
    RS256 |-> Algo("rsaAlgo", "SHA256", 0),
    RS384 |-> Algo("rsaAlgo", "SHA384", 0),
    RS512 |-> Algo("rsaAlgo", "SHA512", 0),
    PS256 |-> Algo("rsaPssAlgo", "SHA256", 0),
    PS384 |-> Algo("rsaPssAlgo", "SHA384", 0),
    PS512 |-> Algo("rsaPssAlgo", "SHA512", 0),
    ES224 |-> Algo("ecdsaAlgo", "", 1),
    ES256 |-> Algo("ecdsaAlgo", "", 2),
    ES384 |-> Algo("ecdsaAlgo", "", 3),
    ES512 |-> Algo("ecdsaAlgo", "", 4),
    ES256K |-> Algo("ecdsaAlgo", "", 5),
    EdDSA |-> Algo("ed25519Algo", "", 0),
    None  |-> Algo("noneAlgo", "", 0) ]

NoVars == [v \in {DeclOrder[i] : i \in 1..Len(DeclOrder)} |-> NilAlgo]

hmacString(h) ==
  CASE h = "SHA224" -> "HS224" [] h = "SHA256" -> "HS256"
    [] h = "SHA384" -> "HS384" [] h = "SHA512" -> "HS512" [] OTHER -> ""

rsaString(h) ==
  CASE h = "SHA224" -> "RS224" [] h = "SHA256" -> "RS256"
    [] h = "SHA384" -> "RS384" [] h = "SHA512" -> "RS512" [] OTHER -> ""

rsaPssString(h) ==
  CASE h = "SHA224" -> "PS224" [] h = "SHA256" -> "PS256"
    [] h = "SHA384" -> "PS384" [] h = "SHA512" -> "PS512" [] OTHER -> ""

\* ecdsaAlgo.String compares the receiver with the package variables ES224,
\* ES256, ..., read when the method runs: p is their value at that moment.  A
\* variable that is not initialised yet holds the nil interface and equals no
\* ecdsaAlgo.
ecdsaString(a, p) ==
  CASE a = p["ES224"]  -> "ES224"
    [] a = p["ES256"]  -> "ES256"
    [] a = p["ES256K"] -> "ES256K"
    [] a = p["ES384"]  -> "ES384"
    [] a = p["ES512"]  -> "ES512"
    [] OTHER -> ""

StringOf(a, p) ==
  CASE a.fam = "hmacAlgo"    -> hmacString(a.h)
    [] a.fam = "rsaAlgo"     -> rsaString(a.h)
    [] a.fam = "rsaPssAlgo"  -> rsaPssString(a.h)
    [] a.fam = "ecdsaAlgo"   -> ecdsaString(a, p)
    [] a.fam = "ed25519Algo" -> "EdDSA"
    [] a.fam = "noneAlgo"    -> "none"
    [] OTHER -> ""

Aliases(a) == IF a.fam = "ed25519Algo" THEN << "EdDSA", "EDDSA" >> ELSE << >>

\* RegisterAlgo: the map after registering obj, with the package variables p.
RegisterAlgo(map, obj, p) ==
  LET store(names) ==
        [n \in DOMAIN map \cup names |-> IF n \in names THEN obj ELSE map[n]] IN
  store({StringOf(obj, p)} \cup {Aliases(obj)[i] : i \in 1..Len(Aliases(obj))})

EmptyAlgoMap == [n \in {} |-> NilAlgo]

\* The registry and the package variables once the first k variables are
\* initialised.
RECURSIVE InitUpTo(_)
InitUpTo(k) ==
  LET step(prev, v) ==
        [map |-> RegisterAlgo(prev.map, Initializer[v], prev.p),
         p   |-> [prev.p EXCEPT ![v] = Initializer[v]]] IN
  IF k = 0 THEN [map |-> EmptyAlgoMap, p |-> NoVars]
  ELSE step(InitUpTo(k - 1), DeclOrder[k])

----------------------------------------------------------------------------
(* Keys and the cryptographic primitives                                    *)

\* A key object: its Go type, which key pair it belongs to (id), the curve of
\* an EC key, the modulus size in bytes of an RSA key, and, for a crypto.Signer
\* that is not a key of the standard library, the form of what its Sign
\* returns.
Key(kt, id, crv, size) ==
  [kt |-> kt, id |-> id, crv |-> crv, size |-> size, form |-> ""]

\* The modulus of the RSA keys, in bytes: 1024-bit keys.
RsaSize == 128

HmacKey(id)    == Key("[]byte", id, "", 0)
RsaPriv(id)    == Key("*rsa.PrivateKey", id, "", RsaSize)
RsaPub(id)     == Key("*rsa.PublicKey", id, "", RsaSize)
EcPriv(id, c)  == Key("*ecdsa.PrivateKey", id, c, 0)
EcPub(id, c)   == Key("*ecdsa.PublicKey", id, c, 0)
EdPriv(id)     == Key("ed25519.PrivateKey", id, "", 0)
EdPub(id)      == Key("ed25519.PublicKey", id, "", 0)
\* A crypto.Signer (a hardware token, a key service) whose Public() is the
\* *ecdsa.PublicKey of key pair id on curve c.
EcSigner(id, c, form) == [Key("crypto.Signer", id, c, 0) EXCEPT !.form = form]

IsSigner(k) ==
  k.kt \in {"*rsa.PrivateKey", "*ecdsa.PrivateKey", "ed25519.PrivateKey", "crypto.Signer"}
Public(k) ==
  CASE k.kt = "*rsa.PrivateKey"     -> [k EXCEPT !.kt = "*rsa.PublicKey"]
    [] k.kt = "*ecdsa.PrivateKey"   -> [k EXCEPT !.kt = "*ecdsa.PublicKey"]
    [] k.kt = "ed25519.PrivateKey"  -> [k EXCEPT !.kt = "ed25519.PublicKey"]
    [] k.kt = "crypto.Signer"       -> EcPub(k.id, k.crv)
    [] OTHER -> k

HashSize(h) ==
  CASE h = "SHA224" -> 28 [] h = "SHA256" -> 32
    [] h = "SHA384" -> 48 [] h = "SHA512" -> 64 [] OTHER -> 0

CurveSize(c) ==
  CASE c = "P-224" -> 28 [] c = "P-256" -> 32
    [] c = "P-384" -> 48 [] c = "P-521" -> 66
    [] c = "secp256k1" -> 32 [] OTHER -> 0

\* Keys on different curves are different keys, also where the curves have
\* the same size.
CurveCode(c) ==
  CASE c = "P-224" -> 1 [] c = "P-256" -> 2 [] c = "P-384" -> 3 [] c = "P-521" -> 4
    [] c = "secp256k1" -> 5 [] OTHER -> 0

\* The primitives are ideal: the signature of a message under a key pair is a
\* fixed byte string that depends on the scheme, the key pair and every
\* character of the message, and no other byte string verifies.
RECURSIVE Digest(_, _)
Digest(buf, i) ==
  IF i > Len(buf) THEN 0 ELSE ((buf[i] + 1) * i + Digest(buf, i + 1)) % 251

PrimitiveSign(scheme, id, buf, n) ==
  LET fill(d) == [i \in 1..n |-> (d * i + id * 37 + scheme * 11 + i) % 256] IN
  fill(Digest(buf, 1))

----------------------------------------------------------------------------
VARIABLES
  regpc,    \* package initialisation: the next variable of DeclOrder to initialise
  pkg,      \* the package variables HS256 ... None
  algoMap,  \* algo.go: algoMap
  live,     \* whether the program holds a token
  tok,      \* the token: algo, header, payload, values, value
  ops,      \* number of operations applied to the token so far
  hist,     \* history: how the token's string came to be
  last,     \* the last call and what it returned
  DeprecatedAllowEcdsaASN1Signatures,  \* ecdsa.go: the package flag
  jwk,      \* jwk.go: a JWK
  jcall,    \* the last call on the JWK and what it returned
  gos       \* the goroutines that call the token's read methods concurrently

vars == << regpc, pkg, algoMap, live, tok, ops, hist, last,
           DeprecatedAllowEcdsaASN1Signatures, jwk, jcall, gos >>

\* parseAlgo (algo.go)
parseAlgo(v) == IF v \in DOMAIN algoMap THEN algoMap[v] ELSE NilAlgo

String(a) == StringOf(a, pkg)

\* ecdsaAlgo.Hash compares the receiver with the package variables too.
ecdsaHash(a) ==
  CASE a = pkg["ES224"] -> "SHA224"
    [] a = pkg["ES256"] \/ a = pkg["ES256K"] -> "SHA256"
    [] a = pkg["ES384"] -> "SHA384"
    [] a = pkg["ES512"] -> "SHA512"
    [] OTHER -> ""

digitLength(a) ==
  LET length(h) ==
        CASE h = "SHA224" -> 28 [] h = "SHA256" -> 32
          [] h = "SHA384" -> 48 [] h = "SHA512" -> 66 [] OTHER -> 0 IN
  length(ecdsaHash(a))

----------------------------------------------------------------------------
(* Sign and Verify of each algorithm.  Sign returns [err, sig, isnil],      *)
(* Verify returns the error ("nil" for none).                               *)

SignOk(sig)  == [err |-> "nil", sig |-> sig, isnil |-> FALSE]
SignErr(e)   == [err |-> e, sig |-> << >>, isnil |-> TRUE]

hmacSign(a, buf, priv) ==
  IF priv.kt # "[]byte" THEN SignErr("ErrInvalidSignKey")
  ELSE SignOk(PrimitiveSign(100 + HashSize(a.h), priv.id, buf, HashSize(a.h)))

hmacVerify(a, buf, sign, pub) ==
  IF pub.kt # "[]byte" THEN "ErrInvalidSignature"
  ELSE IF sign # PrimitiveSign(100 + HashSize(a.h), pub.id, buf, HashSize(a.h))
       THEN "ErrInvalidSignature"
  ELSE "nil"

rsaSign(a, buf, priv) ==
  IF ~IsSigner(priv) THEN SignErr("ErrInvalidSignKey")
  ELSE IF Public(priv).kt # "*rsa.PublicKey" THEN SignErr("ErrInvalidSignKey")
  ELSE SignOk(PrimitiveSign(200 + HashSize(a.h), priv.id, buf, priv.size))

rsaVerify(a, buf, sign, pub) ==
  IF pub.kt # "*rsa.PublicKey" THEN "ErrInvalidSignature"
  ELSE IF sign # PrimitiveSign(200 + HashSize(a.h), pub.id, buf, pub.size)
       THEN "rsa.ErrVerification"
  ELSE "nil"

rsaPssSign(a, buf, priv) ==
  IF ~IsSigner(priv) THEN SignErr("ErrInvalidSignKey")
  ELSE IF Public(priv).kt # "*rsa.PublicKey" THEN SignErr("ErrInvalidSignKey")
  ELSE SignOk(PrimitiveSign(300 + HashSize(a.h), priv.id, buf, priv.size))

rsaPssVerify(a, buf, sign, pub) ==
  IF pub.kt # "*rsa.PublicKey" THEN "ErrInvalidSignature"
  ELSE IF sign # PrimitiveSign(300 + HashSize(a.h), pub.id, buf, pub.size)
       THEN "rsa.ErrVerification"
  ELSE "nil"

ed25519Sign(a, buf, priv) ==
  IF ~IsSigner(priv) THEN SignErr("ErrInvalidSignKey")
  ELSE IF Public(priv).kt # "ed25519.PublicKey" THEN SignErr("ErrInvalidSignKey")
  ELSE SignOk(PrimitiveSign(500, priv.id, buf, 64))

ed25519Verify(a, buf, sign, pub) ==
  IF pub.kt # "ed25519.PublicKey" THEN "ErrInvalidSignature"
  ELSE IF sign # PrimitiveSign(500, pub.id, buf, 64) THEN "ErrInvalidSignature"
  ELSE "nil"

noneSign(a, buf, priv) == [err |-> "nil", sig |-> << >>, isnil |-> TRUE]
noneVerify(a, buf, sign, pub) == "ErrInvalidSignature"

\* The (r, s) a key pair's ECDSA signer produces for a message digest, each as
\* big-endian bytes of the curve's size.
EcdsaR(hash, key, buf) ==
  SubSeq(PrimitiveSign(400 + HashSize(hash) + CurveCode(key.crv), key.id, buf,
                       2 * CurveSize(key.crv)),
         1, CurveSize(key.crv))
EcdsaS(hash, key, buf) ==
  SubSeq(PrimitiveSign(400 + HashSize(hash) + CurveCode(key.crv), key.id, buf,
                       2 * CurveSize(key.crv)),
         CurveSize(key.crv) + 1, 2 * CurveSize(key.crv))

RECURSIVE StripZeros(_)
StripZeros(b) ==
  IF Len(b) > 0 /\ b[1] = 0 THEN StripZeros(Tail(b)) ELSE b

Zeros(n) == [i \in 1..n |-> 0]

\* An INTEGER of ASN.1 DER: the minimal big-endian bytes, with a zero byte in
\* front when the top bit is set.
DerInteger(b) ==
  LET encode(c) == << 2, Len(c) >> \o c
      signed(m) == encode(IF m[1] >= 128 THEN << 0 >> \o m ELSE m)
      minimal(m) == signed(IF m = << >> THEN << 0 >> ELSE m) IN
  minimal(StripZeros(b))

\* crypto/ecdsa's signer output: SEQUENCE { INTEGER r, INTEGER s }.
DerSignature(r, s) ==
  LET sequence(body) ==
        IF Len(body) < 128 THEN << 48, Len(body) >> \o body
        ELSE << 48, 129, Len(body) >> \o body IN
  sequence(DerInteger(r) \o DerInteger(s))

\* parseEcdsaSignature (ecdsa.go): [ok, r, s]; r and s without sign padding.
parseEcdsaSignature(sig) ==
  LET bad == [ok |-> FALSE, r |-> << >>, s |-> << >>]
      minimal(x) == ~(Len(x) > 1 /\ x[1] = 0 /\ x[2] < 128) /\ x[1] < 128
      unsigned(x) == IF Len(x) > 1 /\ x[1] = 0 THEN Tail(x) ELSE x
      both(rb, sb) ==
        IF ~minimal(rb) \/ ~minimal(sb) THEN bad
        ELSE [ok |-> TRUE, r |-> unsigned(rb), s |-> unsigned(sb)]
      second(rb, rest) ==
        IF Len(rest) < 2 \/ rest[1] # 2 \/ rest[2] = 0 \/ rest[2] >= 128
           \/ Len(rest) # 2 + rest[2] THEN bad
        ELSE both(rb, SubSeq(rest, 3, Len(rest)))
      first(in) ==
        IF Len(in) < 2 \/ in[1] # 2 \/ in[2] = 0 \/ in[2] >= 128 \/ Len(in) < 2 + in[2]
        THEN bad
        ELSE second(SubSeq(in, 3, 2 + in[2]), SubSeq(in, 3 + in[2], Len(in)))
      sequence(hl) ==
        IF Len(sig) < hl \/ sig[1] # 48 THEN bad
        ELSE IF sig[hl] # Len(sig) - hl THEN bad
        ELSE IF hl = 3 /\ sig[hl] < 128 THEN bad
        ELSE first(SubSeq(sig, hl + 1, Len(sig))) IN
  sequence(IF Len(sig) >= 2 /\ sig[2] = 129 THEN 3 ELSE 2)

\* pk.Sign(rand, digest, hash) of an EC signer: [err, sig].  An
\* *ecdsa.PrivateKey returns SEQUENCE { INTEGER r, INTEGER s }; another
\* crypto.Signer returns what its form says, built on the same (r, s).
SignerOutput(priv, hash, buf) ==
  LET first(d) == IF d[2] = 129 THEN 6 ELSE 5
      short(c) == IF 2 * c - 2 < 128 THEN c - 6 ELSE c - 7
      out(r, s, c) ==
        CASE priv.form = ""         -> DerSignature(r, s)
          [] priv.form = "raw"      -> r \o s
          [] priv.form = "trailing" -> DerSignature(r, s) \o << 0 >>
          [] priv.form = "set"      -> [DerSignature(r, s) EXCEPT ![1] = 49]
          [] priv.form = "one"      -> << 48, Len(DerInteger(r)) >> \o DerInteger(r)
          [] priv.form = "short"    ->
               DerSignature(<< 1 >> \o SubSeq(r, 2, c), << 1 >> \o SubSeq(s, 2, short(c)))
          [] priv.form = "long"     -> DerSignature(<< 1 >> \o r, s)
          [] priv.form = "negative" ->
               [DerSignature(<< 1 >> \o Tail(r), s)
                  EXCEPT ![first(DerSignature(<< 1 >> \o Tail(r), s))] = 128]
          [] OTHER                  -> << >> IN
  [err |-> "nil",
   sig |-> out(EcdsaR(hash, Public(priv), buf), EcdsaS(hash, Public(priv), buf),
               CurveSize(priv.crv))]

\* pk.Sign(rand, digest, hash) of any crypto.Signer: an *rsa.PrivateKey returns
\* its PKCS #1 v1.5 signature, an ed25519.PrivateKey refuses a hash that is
\* neither 0 nor SHA-512.
SignerSign(priv, hash, buf) ==
  CASE priv.kt = "*rsa.PrivateKey" ->
         [err |-> "nil", sig |-> PrimitiveSign(200 + HashSize(hash), priv.id, buf, priv.size)]
    [] priv.kt = "ed25519.PrivateKey" ->
         [err |-> "ed25519: bad hash function", sig |-> << >>]
    [] OTHER -> SignerOutput(priv, hash, buf)

ecdsaSign(a, buf, priv) ==
  LET fixed(rs, ln) ==
        IF ~rs.ok THEN SignErr("unable to parse ECDSA signature")
        ELSE IF Len(rs.r) > ln \/ Len(rs.s) > ln
             THEN SignErr("bad data length for signature")
        ELSE SignOk(Zeros(ln - Len(rs.r)) \o rs.r \o Zeros(ln - Len(rs.s)) \o rs.s)
      convert(out, ln) ==
        IF Len(out) = ln * 2 THEN SignOk(out)
        ELSE fixed(parseEcdsaSignature(out), ln)
      signed(o) ==
        IF o.err # "nil" THEN SignErr(o.err) ELSE convert(o.sig, digitLength(a)) IN
  IF ~IsSigner(priv) THEN SignErr("ErrInvalidSignKey")
  ELSE IF a # pkg["ES256K"] /\ Public(priv).kt # "*ecdsa.PublicKey"
       THEN SignErr("ErrInvalidSignKey")
  ELSE signed(SignerSign(priv, ecdsaHash(a), buf))

\* ecdsa.Verify: r and s as unsigned integers against the key's signature.
EcdsaValid(hash, pk, buf, r, s) ==
  /\ StripZeros(r) = StripZeros(EcdsaR(hash, pk, buf))
  /\ StripZeros(s) = StripZeros(EcdsaS(hash, pk, buf))

\* ecdsa.VerifyASN1
EcdsaValidASN1(hash, pk, buf, sign) ==
  LET valid(rs) == rs.ok /\ EcdsaValid(hash, pk, buf, rs.r, rs.s) IN
  valid(parseEcdsaSignature(sign))

----------------------------------------------------------------------------
ecdsaVerify(a, buf, sign, pub0) ==
  LET check(pub, ln) ==
        IF pub.kt # "*ecdsa.PublicKey" THEN "ErrInvalidPublicKey"
        ELSE IF Len(sign) # ln * 2 THEN
             IF DeprecatedAllowEcdsaASN1Signatures
                /\ ~EcdsaValidASN1(ecdsaHash(a), pub, buf, sign)
             THEN "ErrInvalidSignature"
             ELSE "ErrInvalidSignatureLength"
        ELSE IF ~EcdsaValid(ecdsaHash(a), pub, buf,
                            SubSeq(sign, 1, ln), SubSeq(sign, ln + 1, 2 * ln))
             THEN "ErrInvalidSignature"
        ELSE "nil" IN
  check(IF IsSigner(pub0) THEN Public(pub0) ELSE pub0, digitLength(a))

\* algo.Sign(buf, priv) and algo.Verify(buf, sign, pub) through the interface.
AlgoSign(a, buf, priv) ==
  CASE a.fam = "hmacAlgo"    -> hmacSign(a, buf, priv)
    [] a.fam = "rsaAlgo"     -> rsaSign(a, buf, priv)
    [] a.fam = "rsaPssAlgo"  -> rsaPssSign(a, buf, priv)
    [] a.fam = "ecdsaAlgo"   -> ecdsaSign(a, buf, priv)
    [] a.fam = "ed25519Algo" -> ed25519Sign(a, buf, priv)
    [] OTHER                 -> noneSign(a, buf, priv)

AlgoVerify(a, buf, sign, pub) ==
  CASE a.fam = "hmacAlgo"    -> hmacVerify(a, buf, sign, pub)
    [] a.fam = "rsaAlgo"     -> rsaVerify(a, buf, sign, pub)
    [] a.fam = "rsaPssAlgo"  -> rsaPssVerify(a, buf, sign, pub)
    [] a.fam = "ecdsaAlgo"   -> ecdsaVerify(a, buf, sign, pub)
    [] a.fam = "ed25519Algo" -> ed25519Verify(a, buf, sign, pub)
    [] OTHER                 -> noneVerify(a, buf, sign, pub)

----------------------------------------------------------------------------
(* Token (token.go)                                                         *)

NilHeader  == [nil |-> TRUE, m |-> EmptyHeader]
NilPayload == [nil |-> TRUE, m |-> EmptyPayload]
HeaderMap(m)  == [nil |-> FALSE, m |-> m]
PayloadMap(m) == [nil |-> FALSE, m |-> m]

ZeroToken ==
  [algo |-> NilAlgo, header |-> NilHeader, payload |-> NilPayload,
   values |-> << >>, value |-> << >>]

\* strings.SplitN(value, ".", n)
RECURSIVE SplitN(_, _)
SplitN(value, n) ==
  IF n = 1 \/ ~(\E i \in 1..Len(value) : value[i] = Dot) THEN << value >>
  ELSE LET i == CHOOSE j \in 1..Len(value) :
                  value[j] = Dot /\ \A k \in 1..(j - 1) : value[k] # Dot IN
       << SubSeq(value, 1, i - 1) >> \o SplitN(SubSeq(value, i + 1, Len(value)), n - 1)

New(alg) ==
  [algo |-> alg, header |-> HeaderMap([alg |-> String(alg)]),
   payload |-> PayloadMap(EmptyPayload), values |-> << >>, value |-> << >>]

\* ParseString splitting at every dot.
ParseStringEveryDot(value) ==
  LET token(split) ==
        IF Len(split) < 2 THEN [err |-> "ErrInvalidToken", t |-> ZeroToken]
        ELSE [err |-> "nil", t |-> [ZeroToken EXCEPT !.value = value, !.values = split]] IN
  token(SplitN(value, Len(value) + 1))

\* ParseString: [err, t]
ParseString(value) ==
  LET token(split) ==
        IF Len(split) < 2 THEN [err |-> "ErrInvalidToken", t |-> ZeroToken]
        ELSE [err |-> "nil", t |-> [ZeroToken EXCEPT !.value = value, !.values = split]] IN
  token(SplitN(value, 3))

\* Header.Get, Header.GetAlgo, Payload.Has, Payload.Get
HeaderGet(h, key) == IF h.nil \/ key \notin DOMAIN h.m THEN "" ELSE h.m[key]
HeaderGetAlgo(h)  == parseAlgo(HeaderGet(h, "alg"))
Has(p, key) == ~p.nil /\ key \in DOMAIN p.m
Get(p, key) == IF Has(p, key) THEN p.m[key] ELSE NilVal

\* Token.Header: [t, h]: the token afterwards and the header returned.
Header(t) ==
  LET unmarshal(u) ==
        IF u.err # "nil"
        THEN [t |-> IF u.set THEN [t EXCEPT !.header = HeaderMap(u.m)] ELSE t,
              h |-> NilHeader]
        ELSE IF u.set THEN [t |-> [t EXCEPT !.header = HeaderMap(u.m)], h |-> HeaderMap(u.m)]
        ELSE [t |-> t, h |-> NilHeader]
      decode(str) ==
        IF ~str.ok THEN [t |-> t, h |-> NilHeader]
        ELSE unmarshal(UnmarshalHeader(str.bytes)) IN
  IF ~t.header.nil THEN [t |-> t, h |-> t.header]
  ELSE decode(DecodeString(t.values[1]))

\* Token.Payload: [t, p]
Payload(t) ==
  LET unmarshal(u) ==
        IF u.err # "nil"
        THEN [t |-> IF u.set THEN [t EXCEPT !.payload = PayloadMap(u.m)] ELSE t,
              p |-> NilPayload]
        ELSE IF u.set THEN [t |-> [t EXCEPT !.payload = PayloadMap(u.m)], p |-> PayloadMap(u.m)]
        ELSE [t |-> t, p |-> NilPayload]
      decode(str) ==
        IF ~str.ok THEN [t |-> t, p |-> NilPayload]
        ELSE unmarshal(DecodePayload(str.bytes)) IN
  IF ~t.payload.nil THEN [t |-> t, p |-> t.payload]
  ELSE decode(DecodeString(t.values[2]))

\* Token.GetAlgo: [t, a]
GetAlgo(t) ==
  LET fromHeader(h) == [t |-> h.t, a |-> HeaderGetAlgo(h.h)] IN
  IF t.algo # NilAlgo THEN [t |-> t, a |-> t.algo]
  ELSE fromHeader(Header(t))

\* Token.SetRawPayload: [t, err]
SetRawPayload(t, payload, cty) ==
  LET setCty(h) ==
        IF h.h.nil THEN [t |-> h.t, err |-> "ErrNoHeader"]
        ELSE [t |-> [h.t EXCEPT !.header = HeaderMap(Put(h.h.m, "cty", cty))], err |-> "nil"]
      finish(t1) ==
        IF cty # "" THEN setCty(Header(t1)) ELSE [t |-> t1, err |-> "nil"]
      store(vals) ==
        finish([t EXCEPT !.payload = NilPayload,
                         !.values = [vals EXCEPT ![2] = EncodeToString(payload)]]) IN
  store(IF Len(t.values) < 2 THEN << << >>, << >> >> ELSE t.values)

\* tok.Header().Set(key, value): [t, err]
HeaderSet(t, key, value) ==
  LET set(h) ==
        IF h.h.nil THEN [t |-> h.t, err |-> "ErrNoHeader"]
        ELSE [t |-> [h.t EXCEPT !.header = HeaderMap(Put(h.h.m, key, value))], err |-> "nil"] IN
  set(Header(t))

\* Token.GetRawPayload: [err, out]
GetRawPayload(t) ==
  LET decoded(d) ==
        IF ~d.ok THEN [err |-> "CorruptInputError", out |-> << >>]
        ELSE [err |-> "nil", out |-> d.bytes] IN
  IF ~t.payload.nil THEN [err |-> "nil", out |-> MarshalPayload(t.payload.m)]
  ELSE IF Len(t.values) < 2 THEN [err |-> "nil", out |-> MarshalPayload(EmptyPayload)]
  ELSE decoded(DecodeString(t.values[2]))

\* Token.GetContentType: [t, out].  strings.IndexByte(cty, '/') is read from
\* the strings of the vocabulary that have a slash.
Slashed == {"text/plain"}
GetContentType(t) ==
  LET named(cty) ==
        CASE cty = ""          -> "application/jwt"
          [] cty \notin Slashed -> "application/" \o cty
          [] OTHER             -> cty
      get(h) == [t |-> h.t, out |-> named(HeaderGet(h.h, "cty"))] IN
  get(Header(t))

\* Token.GetRawSignature: [err, sign]
GetRawSignature(t) ==
  LET decoded(d) ==
        IF ~d.ok THEN [err |-> "CorruptInputError", sign |-> << >>]
        ELSE [err |-> "nil", sign |-> d.bytes] IN
  IF Len(t.values) < 3 THEN [err |-> "ErrNoSignature", sign |-> << >>]
  ELSE decoded(DecodeString(t.values[3]))

\* Token.getSignString: [panic, buf]; the slice expression tok.value[:ln]
\* panics when ln exceeds the length of tok.value.
getSignString(t) ==
  LET slice(ln) ==
        IF ln > Len(t.value) THEN [panic |-> TRUE, buf |-> << >>]
        ELSE [panic |-> FALSE, buf |-> SubSeq(t.value, 1, ln)] IN
  slice(Len(t.values[1]) + Len(t.values[2]) + 1)

\* json.Marshal(tok.Header()): a nil map is written as null.
MarshalHeaderOf(h) == IF h.nil THEN << TokByte(NullTok) >> ELSE MarshalHeader(h.m)

\* Sign storing the string and the segments before algo.Sign has returned.
SignStoringFirst(t, priv) ==
  LET finish(t1, buf, v0, v1, sg) ==
        IF sg.err # "nil"
        THEN [t |-> [t1 EXCEPT !.value = buf, !.values = << v0, v1 >>],
              err |-> sg.err, out |-> << >>, buf |-> buf, called |-> TRUE]
        ELSE IF sg.isnil
        THEN [t |-> [t1 EXCEPT !.value = buf, !.values = << v0, v1 >>],
              err |-> "nil", out |-> buf, buf |-> buf, called |-> TRUE]
        ELSE [t |-> [t1 EXCEPT !.value = buf \o << Dot >> \o EncodeToString(sg.sig),
                               !.values = << v0, v1, EncodeToString(sg.sig) >>],
              err |-> "nil", out |-> buf \o << Dot >> \o EncodeToString(sg.sig),
              buf |-> buf, called |-> TRUE]
      sign(t1, a, buf, v0, v1) == finish(t1, buf, v0, v1, AlgoSign(a, buf, priv))
      build(t1, a, v0, v1) == sign(t1, a, v0 \o << Dot >> \o v1, v0, v1)
      encode(hd, a) ==
        build(hd.t, a, EncodeToString(MarshalHeaderOf(hd.h)),
              IF hd.t.payload.nil
              THEN (IF Len(hd.t.values) < 2
                    THEN EncodeToString(MarshalPayload(EmptyPayload))
                    ELSE hd.t.values[2])
              ELSE EncodeToString(MarshalPayload(Payload(hd.t).p.m)))
      start(ga) ==
        IF ga.a = NilAlgo
        THEN [t |-> ga.t, err |-> "ErrInvalidToken", out |-> << >>, buf |-> << >>,
              called |-> FALSE]
        ELSE encode(Header(ga.t), ga.a) IN
  start(GetAlgo(t))

\* Token.Sign: [t, err, out, buf, called]: the token afterwards, the error,
\* the string returned, the bytes handed to algo.Sign and whether it was called.
Sign(t, priv) ==
  LET finish(t1, buf, v0, v1, sg) ==
        IF sg.err # "nil"
        THEN [t |-> t1, err |-> sg.err, out |-> << >>, buf |-> buf, called |-> TRUE]
        ELSE IF sg.isnil
        THEN [t |-> [t1 EXCEPT !.value = buf, !.values = << v0, v1 >>],
              err |-> "nil", out |-> buf, buf |-> buf, called |-> TRUE]
        ELSE [t |-> [t1 EXCEPT !.value = buf \o << Dot >> \o EncodeToString(sg.sig),
                               !.values = << v0, v1, EncodeToString(sg.sig) >>],
              err |-> "nil", out |-> buf \o << Dot >> \o EncodeToString(sg.sig),
              buf |-> buf, called |-> TRUE]
      sign(t1, a, buf, v0, v1) == finish(t1, buf, v0, v1, AlgoSign(a, buf, priv))
      build(t1, a, v0, v1) == sign(t1, a, v0 \o << Dot >> \o v1, v0, v1)
      encode(hd, a) ==
        build(hd.t, a, EncodeToString(MarshalHeaderOf(hd.h)),
              IF hd.t.payload.nil
              THEN (IF Len(hd.t.values) < 2
                    THEN EncodeToString(MarshalPayload(EmptyPayload))
                    ELSE hd.t.values[2])
              ELSE EncodeToString(MarshalPayload(Payload(hd.t).p.m)))
      start(ga) ==
        IF ga.a = NilAlgo
        THEN [t |-> ga.t, err |-> "ErrInvalidToken", out |-> << >>, buf |-> << >>,
              called |-> FALSE]
        ELSE encode(Header(ga.t), ga.a) IN
  start(GetAlgo(t))

----------------------------------------------------------------------------
(* Payload accessors and time                                                *)

\* A time.Time: the second, as an int64 of one of the two windows, and whether
\* it has nanoseconds (ns = 1) or none (ns = 0).
Time(w, n, ns) == [w |-> w, n |-> n, ns |-> ns]
ZeroTime == Time("year1", 0, 0)
Unix(sec) == Time(sec.w, sec.n, 0)
IsZero(t) == t = ZeroTime

Int64(w, n) == [w |-> w, n |-> n]
WindowRank(w) == IF w = "year1" THEN 0 ELSE 1

\* t.Before(u)
Before(t, u) ==
  \/ WindowRank(t.w) < WindowRank(u.w)
  \/ /\ t.w = u.w
     /\ \/ t.n < u.n
        \/ t.n = u.n /\ t.ns < u.ns

\* Payload.GetInt: the type switch on the value.  No string of the model is a
\* number, so strconv.ParseInt fails on every one of them and leaves 0.
\* int64(v) of a float64 truncates towards zero.  json.Number.Int64 is
\* strconv.ParseInt(string(n), 10, 64), which fails on a literal with a
\* fraction or an exponent and leaves 0.
GetInt(p, key) ==
  LET convert(v) ==
        CASE v.t = "string"      -> Int64("unix", 0)
          [] v.t = "float64"     -> Int64(v.w, v.n)
          [] v.t = "int64"       -> Int64(v.w, v.n)
          [] v.t = "json.Number" -> IF v.s = "" THEN Int64(v.w, v.n) ELSE Int64("unix", 0)
          [] v.t = "nil"         -> Int64("unix", 0)
          [] OTHER               -> Int64("unix", 0) IN
  convert(Get(p, key))

\* Payload.GetNumericDate
GetNumericDate(p, key) ==
  IF ~Has(p, key) THEN ZeroTime ELSE Unix(GetInt(p, key))

----------------------------------------------------------------------------
(* Verification options (verify.go).  An option is a record; running it     *)
(* gives [t, res, ev, calls]: the token afterwards, the error ("nil" for    *)
(* none, "panic" when the call does not return), the options evaluated, in  *)
(* order, and the calls made to algo.Verify.                                *)

NoKey == Key("", 0, "", 0)
Opt(o, algos, key, now, req, subs) ==
  [o |-> o, algos |-> algos, key |-> key, now |-> now, req |-> req, subs |-> subs]
OptAlgo(algos)     == Opt("VerifyAlgo", algos, NoKey, ZeroTime, FALSE, << >>)
OptSignature(pub)  == Opt("VerifySignature", << >>, pub, ZeroTime, FALSE, << >>)
OptExpiresAt(now, req) == Opt("VerifyExpiresAt", << >>, NoKey, now, req, << >>)
OptNotBefore(now, req) == Opt("VerifyNotBefore", << >>, NoKey, now, req, << >>)
OptTime(now, req)  == Opt("VerifyTime", << >>, NoKey, now, req, << >>)
OptMultiple(subs)  == Opt("VerifyMultiple", << >>, NoKey, ZeroTime, FALSE, subs)

Outcome(t, res, calls) == [t |-> t, res |-> res, calls |-> calls]

VerifyAlgo(t, algo) ==
  LET check(ga) ==
        IF ga.a = NilAlgo THEN Outcome(ga.t, "ErrInvalidToken", << >>)
        ELSE IF \E i \in 1..Len(algo) : String(ga.a) = String(algo[i])
             THEN Outcome(ga.t, "nil", << >>)
        ELSE Outcome(ga.t, "ErrVerifyFailed", << >>) IN
  check(GetAlgo(t))

VerifySignature(t, pub) ==
  LET verify(t1, a, ss, sign) ==
        IF ss.panic THEN Outcome(t1, "panic", << >>)
        ELSE Outcome(t1, AlgoVerify(a, ss.buf, sign, pub), << [alg |-> a, buf |-> ss.buf] >>)
      withAlgo(ga, sign) ==
        IF ga.a = NilAlgo THEN Outcome(ga.t, "ErrInvalidToken", << >>)
        ELSE verify(ga.t, ga.a, getSignString(ga.t), sign)
      withSignature(rs) ==
        IF rs.err # "nil" THEN Outcome(t, rs.err, << >>)
        ELSE withAlgo(GetAlgo(t), rs.sign) IN
  withSignature(GetRawSignature(t))

\* A variant of VerifyExpiresAt that also fails in the second of the expiry.
VerifyExpiresAtInclusive(t, now, req) ==
  LET compare(t1, exp) ==
        IF IsZero(exp) THEN Outcome(t1, "ErrVerifyFailed", << >>)
        ELSE IF Before(exp, now) \/ exp = now THEN Outcome(t1, "ErrVerifyFailed", << >>)
        ELSE Outcome(t1, "nil", << >>)
      check(p) ==
        IF ~Has(p.p, "exp")
        THEN Outcome(p.t, IF req THEN "ErrVerifyMissing" ELSE "nil", << >>)
        ELSE compare(p.t, GetNumericDate(p.p, "exp")) IN
  check(Payload(t))

VerifyExpiresAt(t, now, req) ==
  LET compare(t1, exp) ==
        IF IsZero(exp) THEN Outcome(t1, "ErrVerifyFailed", << >>)
        ELSE IF Before(exp, now) THEN Outcome(t1, "ErrVerifyFailed", << >>)
        ELSE Outcome(t1, "nil", << >>)
      check(p) ==
        IF ~Has(p.p, "exp")
        THEN Outcome(p.t, IF req THEN "ErrVerifyMissing" ELSE "nil", << >>)
        ELSE compare(p.t, GetNumericDate(p.p, "exp")) IN
  check(Payload(t))

\* A variant of VerifyNotBefore that also fails in the very instant of nbf.
VerifyNotBeforeInclusive(t, now, req) ==
  LET compare(t1, nbf) ==
        IF IsZero(nbf) THEN Outcome(t1, "ErrVerifyFailed", << >>)
        ELSE IF Before(now, nbf) \/ now = nbf THEN Outcome(t1, "ErrVerifyFailed", << >>)
        ELSE Outcome(t1, "nil", << >>)
      check(p) ==
        IF ~Has(p.p, "nbf")
        THEN Outcome(p.t, IF req THEN "ErrVerifyMissing" ELSE "nil", << >>)
        ELSE compare(p.t, GetNumericDate(p.p, "nbf")) IN
  check(Payload(t))

VerifyNotBefore(t, now, req) ==
  LET compare(t1, nbf) ==
        IF IsZero(nbf) THEN Outcome(t1, "ErrVerifyFailed", << >>)
        ELSE IF Before(now, nbf) THEN Outcome(t1, "ErrVerifyFailed", << >>)
        ELSE Outcome(t1, "nil", << >>)
      check(p) ==
        IF ~Has(p.p, "nbf")
        THEN Outcome(p.t, IF req THEN "ErrVerifyMissing" ELSE "nil", << >>)
        ELSE compare(p.t, GetNumericDate(p.p, "nbf")) IN
  check(Payload(t))

\* VerifyTime(now, req) is VerifyMultiple(VerifyExpiresAt(now, req),
\* VerifyNotBefore(now, req)).
VerifyTime(now, req) == << OptExpiresAt(now, req), OptNotBefore(now, req) >>

\* opt(tok) for one option, and the loop "for _, opt := range opts" that
\* Token.Verify and VerifyMultiple share: [t, res, ev, calls].
RECURSIVE RunOption(_, _), VerifyMultiple(_, _, _)
RunOption(t, o) ==
  LET leaf(r) == [t |-> r.t, res |-> r.res, ev |-> << o >>, calls |-> r.calls] IN
  CASE o.o = "VerifyAlgo"       -> leaf(VerifyAlgo(t, o.algos))
    [] o.o = "VerifySignature"  -> leaf(VerifySignature(t, o.key))
    [] o.o = "VerifyExpiresAt"  -> leaf(VerifyExpiresAt(t, o.now, o.req))
    [] o.o = "VerifyNotBefore"  -> leaf(VerifyNotBefore(t, o.now, o.req))
    [] o.o = "VerifyTime"       -> VerifyMultiple(t, VerifyTime(o.now, o.req), 1)
    [] OTHER                    -> VerifyMultiple(t, o.subs, 1)

VerifyMultiple(t, opts, i) ==
  LET join(r, rest) ==
        [t |-> rest.t, res |-> rest.res, ev |-> r.ev \o rest.ev,
         calls |-> r.calls \o rest.calls]
      next(r) ==
        IF r.res # "nil" THEN r ELSE join(r, VerifyMultiple(r.t, opts, i + 1)) IN
  IF i > Len(opts) THEN [t |-> t, res |-> "nil", ev |-> << >>, calls |-> << >>]
  ELSE next(RunOption(t, opts[i]))

\* Verify refusing a token whose algorithm does not resolve.
VerifyResolvingAlgo(t, opts) ==
  LET withPayload(p) ==
        IF p.p.nil THEN [t |-> p.t, res |-> "ErrNoPayload", ev |-> << >>, calls |-> << >>]
        ELSE IF GetAlgo(p.t).a = NilAlgo
             THEN [t |-> p.t, res |-> "ErrInvalidToken", ev |-> << >>, calls |-> << >>]
        ELSE VerifyMultiple(p.t, opts, 1)
      withHeader(h) ==
        IF h.h.nil THEN [t |-> h.t, res |-> "ErrNoHeader", ev |-> << >>, calls |-> << >>]
        ELSE withPayload(Payload(h.t)) IN
  withHeader(Header(t))

\* Token.Verify
Verify(t, opts) ==
  LET withPayload(p) ==
        IF p.p.nil THEN [t |-> p.t, res |-> "ErrNoPayload", ev |-> << >>, calls |-> << >>]
        ELSE VerifyMultiple(p.t, opts, 1)
      withHeader(h) ==
        IF h.h.nil THEN [t |-> h.t, res |-> "ErrNoHeader", ev |-> << >>, calls |-> << >>]
        ELSE withPayload(Payload(h.t)) IN
  withHeader(Header(t))

----------------------------------------------------------------------------
(* jwk.go.  A key object is a map[string]any, here a record over the       *)
(* members the code reads; a member is absent, or holds nil (JSON null), a *)
(* string, a float64 (a JSON number) or a []byte.  The text of kty, crv,   *)
(* kid, alg and use is a string, the text of n, e, x, y and d a sequence   *)
(* of characters.  A *big.Int is its minimal big-endian byte string.       *)

JV(t, s) == [t |-> t, s |-> s]
NameMembers == {"kty", "crv", "kid", "alg", "use"}
NumberMembers == {"n", "e", "x", "y", "d"}
Absent(k) == IF k \in NameMembers THEN JV("absent", "") ELSE JV("absent", << >>)
NoValues == [k \in NameMembers \cup NumberMembers |-> Absent(k)]
Present(values, k) == values[k].t # "absent"

\* The key objects of crypto/rsa and crypto/ecdsa; kt is the dynamic type, so
\* "rsa.PublicKey" is the struct and "*rsa.PublicKey" the pointer to it.
JwkKey(kt, crv, N, E, X, Y, D) ==
  [kt |-> kt, crv |-> crv, N |-> N, E |-> E, X |-> X, Y |-> Y, D |-> D]
NilJwkKey == JwkKey("nil", "", << >>, << >>, << >>, << >>, << >>)

ZeroJWK ==
  [PrivateKey |-> NilJwkKey, PublicKey |-> NilJwkKey, KeyID |-> "", Algo |-> "", Use |-> "",
   Ext |-> FALSE, KeyOps |-> << >>]

\* jwkBase64ToBigInt: [err, v]
jwkBase64ToBigInt(v) ==
  LET set(r) ==
        IF ~r.ok THEN [err |-> "invalid base64 to int input", v |-> << >>]
        ELSE [err |-> "nil", v |-> StripZeros(r.bytes)] IN
  IF v.t \notin {"string", "[]byte"}
  THEN [err |-> "unsupported base64 to int type", v |-> << >>]
  ELSE set(DecodeString(v.s))

\* jwkBigIntToBase64
jwkBigIntToBase64(v) == EncodeToString(v)

\* rsa.PrivateKey.Validate on a key that has N, E and D and no primes.  Go
\* 1.24 and later refuse it for the missing primes; before that the public
\* exponent is checked against [2, 2^31 - 1] and the product of the primes,
\* 1 for none, against N.
Builds == {"go1.24", "older"}
Validate(key, build) ==
  IF build = "go1.24" THEN "crypto/rsa: missing primes"
  ELSE IF Len(key.E) = 0 \/ key.E = << 1 >>
       THEN "crypto/rsa: public exponent too small"
  ELSE IF Len(key.E) > 4 \/ (Len(key.E) = 4 /\ key.E[1] >= 128)
       THEN "crypto/rsa: public exponent too large"
  ELSE IF key.N # << 1 >> THEN "crypto/rsa: invalid modulus"
  ELSE "nil"

\* JWK.ApplyValues: [jwk, res]; res = "panic" when the call does not return.
ApplyValues(j, values, build) ==
  LET fail(e) == [jwk |-> j, res |-> e]
      text(k, old) == IF values[k].t = "string" THEN values[k].s ELSE old
      kid(old) == IF values["kid"].t \in {"string", "[]byte"} THEN values["kid"].s ELSE old
      done(k) ==
        [jwk |-> [k EXCEPT !.KeyID = kid(@), !.Algo = text("alg", @), !.Use = text("use", @)],
         res |-> "nil"]
      rsaPrivate(res) ==
        IF Validate(res, build) # "nil" THEN fail("invalid RSA private key")
        ELSE done([j EXCEPT !.PrivateKey = res,
                            !.PublicKey = [res EXCEPT !.kt = "rsa.PublicKey", !.D = << >>]])
      rsaD(e, n, d) ==
        IF d.err # "nil" THEN fail("while reading d")
        ELSE rsaPrivate(JwkKey("*rsa.PrivateKey", "", n, e, << >>, << >>, d.v))
      rsaN(e, n) ==
        IF n.err # "nil" THEN fail("while reading n")
        ELSE IF Present(values, "d") THEN rsaD(e, n.v, jwkBase64ToBigInt(values["d"]))
        ELSE done([j EXCEPT !.PublicKey =
                      JwkKey("*rsa.PublicKey", "", n.v, e, << >>, << >>, << >>)])
      rsaE(e) ==
        IF e.err # "nil" THEN fail("while reading e")
        ELSE IF Len(e.v) > 8 THEN fail("value for e is too large")
        ELSE rsaN(e.v, jwkBase64ToBigInt(values["n"]))
      ecD(crv, x, y, d) ==
        IF d.err # "nil" THEN fail("while reading d")
        ELSE done([j EXCEPT !.PrivateKey = JwkKey("*ecdsa.PrivateKey", crv, << >>, << >>, x, y, d.v),
                            !.PublicKey = JwkKey("ecdsa.PublicKey", crv, << >>, << >>, x, y, << >>)])
      ecY(crv, x, y) ==
        IF y.err # "nil" THEN fail("while reading y")
        ELSE IF Present(values, "d") THEN ecD(crv, x, y.v, jwkBase64ToBigInt(values["d"]))
        ELSE done([j EXCEPT !.PublicKey =
                      JwkKey("*ecdsa.PublicKey", crv, << >>, << >>, x, y.v, << >>)])
      ecX(crv, x) ==
        IF x.err # "nil" THEN fail("while reading x")
        ELSE ecY(crv, x.v, jwkBase64ToBigInt(values["y"]))
      ec(crv) ==
        IF crv.t # "string" THEN fail("panic")
        ELSE IF crv.s \notin {"P-224", "P-256", "P-384", "P-521"} THEN fail("unsupported curve")
        ELSE ecX(crv.s, jwkBase64ToBigInt(values["x"])) IN
  IF ~Present(values, "kty") THEN fail("JWK object requires kty attribute")
  ELSE IF values["kty"] = JV("string", "RSA") THEN rsaE(jwkBase64ToBigInt(values["e"]))
  ELSE IF values["kty"] = JV("string", "EC") THEN ec(values["crv"])
  ELSE fail("unsupported value for kty")

\* JWK.Public
JWKPublic(j) ==
  CASE j.PrivateKey.kt = "*rsa.PrivateKey" ->
         [j.PrivateKey EXCEPT !.kt = "*rsa.PublicKey", !.D = << >>]
    [] j.PrivateKey.kt = "*ecdsa.PrivateKey" ->
         [j.PrivateKey EXCEPT !.kt = "*ecdsa.PublicKey", !.D = << >>]
    [] OTHER -> j.PublicKey

\* JWK.ExportRequiredPublicValues: the map, member by member, or nil.
Members7638(kty, crv, e, n, x, y) ==
  [null |-> FALSE, kty |-> kty, crv |-> crv, e |-> e, n |-> n, x |-> x, y |-> y]
NilMap == [Members7638("", "", << >>, << >>, << >>, << >>) EXCEPT !.null = TRUE]

ExportRequiredPublicValues(j) ==
  CASE j.PublicKey.kt = "*rsa.PublicKey" ->
         Members7638("RSA", "", jwkBigIntToBase64(j.PublicKey.E),
                     jwkBigIntToBase64(j.PublicKey.N), << >>, << >>)
    [] j.PublicKey.kt = "*ecdsa.PublicKey" ->
         Members7638("EC", j.PublicKey.crv, << >>, << >>,
                     jwkBigIntToBase64(j.PublicKey.X), jwkBigIntToBase64(j.PublicKey.Y))
    [] OTHER -> NilMap

\* JWK.Thumbprint: the hash of json.Marshal of the map, which writes the
\* members in the order of their names and a nil map as null.  The hash is
\* ideal: equal sums come from equal texts under the same method.
Thumbprint(j, method) == [method |-> method, of |-> ExportRequiredPublicValues(j)]

\* JWK.ExportRequiredValues: [null, v]: a nil map, or the map v.
MetaMembers == {"ext", "key_ops"}
NoExport == [k \in NameMembers \cup NumberMembers \cup MetaMembers |-> Absent(k)]

ExportRequiredValues(j) ==
  LET text(b) == JV("string", jwkBigIntToBase64(b))
      public(m) ==
        IF m.null THEN [null |-> TRUE, v |-> NoExport]
        ELSE IF m.kty = "RSA"
        THEN [null |-> FALSE,
              v |-> [NoExport EXCEPT !["kty"] = JV("string", "RSA"),
                                     !["e"] = JV("string", m.e), !["n"] = JV("string", m.n)]]
        ELSE [null |-> FALSE,
              v |-> [NoExport EXCEPT !["kty"] = JV("string", "EC"),
                                     !["crv"] = JV("string", m.crv),
                                     !["x"] = JV("string", m.x), !["y"] = JV("string", m.y)]] IN
  CASE j.PrivateKey.kt = "*rsa.PrivateKey" ->
         [null |-> FALSE,
          v |-> [NoExport EXCEPT !["kty"] = JV("string", "RSA"),
                                 !["e"] = text(j.PrivateKey.E), !["n"] = text(j.PrivateKey.N),
                                 !["d"] = text(j.PrivateKey.D)]]
    [] j.PrivateKey.kt = "*ecdsa.PrivateKey" ->
         [null |-> FALSE,
          v |-> [NoExport EXCEPT !["kty"] = JV("string", "EC"),
                                 !["crv"] = JV("string", j.PrivateKey.crv),
                                 !["d"] = text(j.PrivateKey.D),
                                 !["x"] = text(j.PrivateKey.X), !["y"] = text(j.PrivateKey.Y)]]
    [] OTHER ->
         IF j.PublicKey.kt # "nil" THEN public(ExportRequiredPublicValues(j))
         ELSE [null |-> TRUE, v |-> NoExport]

\* JWK.ExportValues: [panic, null, v]; an assignment to an entry of a nil map
\* panics.
ExportValues(j) ==
  LET meta(r) ==
        [r.v EXCEPT !["kid"] = IF j.KeyID # "" THEN JV("string", j.KeyID) ELSE @,
                    !["alg"] = IF j.Algo # "" THEN JV("string", j.Algo) ELSE @,
                    !["use"] = IF j.Use # "" THEN JV("string", j.Use) ELSE @,
                    !["ext"] = IF j.Ext THEN JV("bool", << 1 >>) ELSE @,
                    !["key_ops"] = IF Len(j.KeyOps) # 0 THEN JV("[]string", j.KeyOps) ELSE @]
      export(r) ==
        IF r.null /\ (j.KeyID # "" \/ j.Algo # "" \/ j.Use # "" \/ j.Ext \/ Len(j.KeyOps) # 0)
        THEN [panic |-> TRUE, null |-> TRUE, v |-> NoExport]
        ELSE [panic |-> FALSE, null |-> r.null, v |-> meta(r)] IN
  export(ExportRequiredValues(j))

\* json.Unmarshal into a map[string]any of the text json.Marshal wrote for
\* the map: a string comes back as a string, a bool as a bool, a []string as
\* a []any.
UnmarshalValues(v) ==
  [k \in DOMAIN v |-> IF v[k].t = "[]string" THEN JV("[]any", v[k].s) ELSE v[k]]

\* jwk.MarshalJSON() and UnmarshalJSON of its text into a zero JWK:
\* [jwk, res]; the text null is a no-op.
MarshalUnmarshal(j, build) ==
  LET parse(e) ==
        IF e.panic THEN [jwk |-> ZeroJWK, res |-> "panic"]
        ELSE IF e.null THEN [jwk |-> ZeroJWK, res |-> "nil"]
        ELSE ApplyValues(ZeroJWK, UnmarshalValues(e.v), build) IN
  parse(ExportValues(j))

NoJcall ==
  [op |-> "-", values |-> NoValues, applied |-> "nil", build |-> "older",
   method |-> "", thumb |-> Thumbprint(ZeroJWK, ""), public |-> NilJwkKey,
   orig |-> ZeroJWK]

----------------------------------------------------------------------------
(* The program: the package initialisation, one variable at a time, and    *)
(* then calls on one token.                                                 *)

MaxOps == 2
MaxVerify == 2

Ready == regpc > Len(DeclOrder)

\* A goroutine that makes one call on the token: where it is in the call
\* (pc), the field it is decoding (stage), the members Unmarshal has still
\* to store (todo), whether the text decodes without error (ok), what the
\* call returned (res), and the reads and writes of shared memory it made
\* (acc).  t0 is the token when the goroutines were started, fatal whether
\* the runtime stopped the program.
NoRes == [h |-> NilHeader, p |-> NilPayload, a |-> NilAlgo, e |-> ""]
NoGo ==
  [pc |-> "idle", call |-> "", stage |-> 1, todo |-> << >>, ok |-> TRUE,
   res |-> NoRes, acc |-> {}]
NoGos == [t0 |-> ZeroToken, fatal |-> FALSE, g |-> [i \in 1..2 |-> NoGo]]

\* What is remembered of the last call: its inputs, what it returned and the
\* token it was applied to; for a Verify call, how many Verify calls in a row
\* this makes (run) and what the one before returned (prevres).
NoLast ==
  [op |-> "-", opts |-> << >>, key |-> NoKey, res |-> "nil", ev |-> << >>,
   calls |-> << >>, pre |-> ZeroToken, run |-> 0, prevres |-> "nil",
   out |-> << >>, buf |-> << >>, called |-> FALSE, text |-> "",
   int |-> Int64("unix", 0), date |-> ZeroTime]

\* How the token's string came to be: "new" (New), "own" (ParseString of the
\* string Sign returned), "tampered" (of that string with one character of its
\* signature replaced), "crafted" (of a string made elsewhere); the algorithm
\* and key it was signed with; whether SetRawPayload was used; whether the
\* token is as ParseString left it.  For the calls made on an algorithm
\* directly: the message that was signed (msg), the signature Sign returned
\* (sig), and as kind what was made of that signature before Verify got it.
\* For SetRawPayload: the payload and cty it was last given, cty replaced by
\* a later Header().Set of cty, and as opaque whether it returned nil and
\* Payload() has not been called since.
NoHist ==
  [kind |-> "-", alg |-> NilAlgo, key |-> NoKey, raw |-> FALSE, clean |-> TRUE,
   msg |-> << >>, sig |-> << >>, payload |-> << >>, cty |-> "", opaque |-> FALSE]

Init ==
  /\ regpc = 1
  /\ pkg = NoVars
  /\ algoMap = EmptyAlgoMap
  /\ live = FALSE
  /\ tok = ZeroToken
  /\ ops = 0
  /\ hist = NoHist
  /\ last = NoLast
  /\ DeprecatedAllowEcdsaASN1Signatures = TRUE
  /\ jwk = ZeroJWK
  /\ jcall = NoJcall
  /\ gos = NoGos

\* var X Algo = <initialiser>.reg(): the next package variable is initialised.
InitVar ==
  /\ ~Ready
  /\ algoMap' = RegisterAlgo(algoMap, Initializer[DeclOrder[regpc]], pkg)
  /\ pkg' = [pkg EXCEPT ![DeclOrder[regpc]] = Initializer[DeclOrder[regpc]]]
  /\ regpc' = regpc + 1
  /\ UNCHANGED << live, tok, ops, hist, last, DeprecatedAllowEcdsaASN1Signatures, jwk, jcall, gos >>

\* A key pair that fits the algorithm.
KeyFor(a) ==
  CASE a.fam = "hmacAlgo" -> HmacKey(1)
    [] a.fam \in {"rsaAlgo", "rsaPssAlgo"} -> RsaPriv(1)
    [] a.fam = "ecdsaAlgo" ->
         EcPriv(1, CASE a.n = 1 -> "P-224" [] a.n = 2 -> "P-256" [] a.n = 3 -> "P-384"
                     [] a.n = 4 -> "P-521" [] OTHER -> "secp256k1")
    [] a.fam = "ed25519Algo" -> EdPriv(1)
    [] OTHER -> HmacKey(1)

\* A key of another type, and the same kind of key of another key pair.
WrongKey(a) == IF a.fam = "hmacAlgo" THEN RsaPriv(1) ELSE HmacKey(1)
OtherKey(k) == [k EXCEPT !.id = 2]

NewCall(a) ==
  /\ Ready /\ ~live
  /\ tok' = New(a)
  /\ live' = TRUE
  /\ ops' = 0
  /\ hist' = [NoHist EXCEPT !.kind = "new", !.alg = a]
  /\ last' = [NoLast EXCEPT !.op = "New"]
  /\ UNCHANGED << regpc, pkg, algoMap, DeprecatedAllowEcdsaASN1Signatures, jwk, jcall, gos >>

\* tok.Payload().Set(k, v)
PayloadSet(k, v) ==
  LET set(p) ==
        /\ tok' = IF p.p.nil THEN p.t
                  ELSE [p.t EXCEPT !.payload = PayloadMap(Put(p.p.m, k, v))]
        /\ last' = [NoLast EXCEPT !.op = "Set", !.pre = tok,
                                  !.res = IF p.p.nil THEN "ErrNoPayload" ELSE "nil"] IN
  /\ live /\ ops < MaxOps
  /\ set(Payload(tok))
  /\ ops' = ops + 1
  /\ hist' = [hist EXCEPT !.clean = FALSE, !.opaque = FALSE]
  /\ UNCHANGED << regpc, pkg, algoMap, live, DeprecatedAllowEcdsaASN1Signatures, jwk, jcall, gos >>

SetRawPayloadCall(payload, cty) ==
  LET set(r) ==
        /\ tok' = r.t
        /\ last' = [NoLast EXCEPT !.op = "SetRawPayload", !.pre = tok, !.res = r.err] IN
  /\ live /\ ops < MaxOps
  /\ set(SetRawPayload(tok, payload, cty))
  /\ ops' = ops + 1
  /\ hist' = [hist EXCEPT !.clean = FALSE, !.raw = TRUE, !.payload = payload,
                           !.cty = cty, !.opaque = (SetRawPayload(tok, payload, cty).err = "nil")]
  /\ UNCHANGED << regpc, pkg, algoMap, live, DeprecatedAllowEcdsaASN1Signatures, jwk, jcall, gos >>

SignCall(priv) ==
  LET signed(r) ==
        /\ tok' = r.t
        /\ last' = [NoLast EXCEPT !.op = "Sign", !.pre = tok, !.key = priv, !.res = r.err,
                                  !.out = r.out, !.buf = r.buf, !.called = r.called]
        /\ hist' = IF r.err = "nil" THEN [hist EXCEPT !.clean = FALSE, !.key = priv]
                   ELSE [hist EXCEPT !.clean = FALSE] IN
  /\ live /\ ops < MaxOps
  /\ signed(Sign(tok, priv))
  /\ ops' = ops + 1
  /\ UNCHANGED << regpc, pkg, algoMap, live, DeprecatedAllowEcdsaASN1Signatures, jwk, jcall, gos >>

\* ParseString(value): the token the program holds from now on is the one
\* returned; with an error it holds none.
Parsed(value, h) ==
  LET parsed(r) ==
        /\ tok' = r.t
        /\ live' = (r.err = "nil")
        /\ last' = [NoLast EXCEPT !.op = "ParseString", !.res = r.err, !.out = value] IN
  /\ parsed(ParseString(value))
  /\ hist' = h
  /\ UNCHANGED << regpc, pkg, algoMap, ops, DeprecatedAllowEcdsaASN1Signatures, jwk, jcall, gos >>

\* ParseString of the string Sign has just returned for a token made by New.
ParseOwn ==
  /\ live /\ hist.kind = "new" /\ last.op = "Sign" /\ last.res = "nil"
  /\ Parsed(last.out, [hist EXCEPT !.kind = "own", !.clean = TRUE])

\* The same with the i-th character of the signature segment replaced by c.
ParseTampered(i, c) ==
  /\ live /\ hist.kind = "new" /\ last.op = "Sign" /\ last.res = "nil"
  /\ Len(tok.values) = 3
  /\ i \in 1..Len(tok.values[3])
  /\ c # tok.values[3][i]
  /\ LET at == Len(tok.values[1]) + Len(tok.values[2]) + 2 + i IN
     Parsed([last.out EXCEPT ![at] = c], [hist EXCEPT !.kind = "tampered", !.clean = TRUE])

\* tok.Verify(opts...); a Verify call may be repeated with the same options.
VerifyCall(opts) ==
  LET verified(r) ==
        /\ tok' = r.t
        /\ last' = [NoLast EXCEPT !.op = "Verify", !.pre = tok, !.opts = opts,
                                  !.res = r.res, !.ev = r.ev, !.calls = r.calls,
                                  !.run = last.run + 1, !.prevres = last.res] IN
  /\ live
  /\ last.op = "Verify" => (last.opts = opts /\ last.run < MaxVerify)
  /\ verified(Verify(tok, opts))
  /\ UNCHANGED << regpc, pkg, algoMap, live, ops, hist, DeprecatedAllowEcdsaASN1Signatures, jwk, jcall, gos >>

----------------------------------------------------------------------------
(* The inputs of the calls                                                  *)

\* A JSON text from its tokens.
Text(toks) == [i \in 1..Len(toks) |-> TokByte(toks[i])]

Compact2(h, p) == EncodeToString(h) \o << Dot >> \o EncodeToString(p)
Compact3(h, p, sig) == Compact2(h, p) \o << Dot >> \o sig

\* A compact string made outside the package: header text h, payload text p and
\* the signature of alg a under key k over the first two segments.
Forged(h, p, a, k) ==
  [s |-> Compact3(h, p, EncodeToString(AlgoSign(a, Compact2(h, p), k).sig)),
   alg |-> a, key |-> k]
Unsigned(s) == [s |-> s, alg |-> NilAlgo, key |-> NoKey]

CraftedStrings ==
  LET hAlg(n)  == Text(<< OpenTok, StrTok("alg"), StrTok(n), CloseTok >>)
      hEmpty   == Text(<< OpenTok, CloseTok >>)
      hNumber  == Text(<< OpenTok, StrTok("alg"), StrTok("HS256"),
                          StrTok("exp"), NumTok("unix", 1), CloseTok >>)
      pEmpty   == Text(<< OpenTok, CloseTok >>)
      pExp     == Text(<< OpenTok, StrTok("exp"), NumTok("unix", 1), CloseTok >>)
      junk     == << JunkByte >>
      sig      == << 0, 0 >> IN
  { Unsigned(<< 1, 2, 3 >>),
    Unsigned(Compact2(hAlg("none"), pEmpty)),
    Unsigned(Compact3(hAlg("none"), pEmpty, << >>)),
    Unsigned(Compact3(hAlg("none"), pEmpty, sig)),
    Unsigned(Compact3(hAlg("XX"), pEmpty, sig)),
    Unsigned(Compact3(junk, pEmpty, sig)),
    Unsigned(Compact3(junk, junk, sig)),
    Unsigned(<< BadChar, Dot >> \o EncodeToString(pEmpty) \o << Dot >> \o sig),
    Forged(hEmpty, pEmpty, pkg["ES256K"], KeyFor(pkg["ES256K"])),
    Forged(hNumber, pEmpty, pkg["HS256"], HmacKey(1)),
    Forged(hAlg("HS256"), Text(<< NullTok >>), pkg["HS256"], HmacKey(1)),
    Forged(hAlg("HS256"), pExp, pkg["HS256"], HmacKey(1)) }

ParseCrafted(c) ==
  /\ Ready /\ ~live /\ last.op = "-"
  /\ Parsed(c.s, [NoHist EXCEPT !.kind = "crafted", !.alg = c.alg, !.key = c.key])

ClaimInputs ==
  { << "iss", StrVal("myself") >>, << "exp", Int64Val("unix", 1) >> }

RawInputs ==
  { << Text(<< OpenTok, StrTok("iss"), StrTok("myself"),
               StrTok("exp"), NumTok("unix", 1), CloseTok >>), "" >>,
    << Text(<< StrTok("text") >>), "text" >> }

\* The characters a signature character is replaced by.
Replacements(c) == { (c + 1) % 64, BadChar, NewLine }

\* The option lists of the Verify calls, for a token signed with algorithm a
\* (HS256 when it is not known).
VerifyInputs ==
  LET a   == IF hist.alg = NilAlgo THEN pkg["HS256"] ELSE hist.alg
      pub == Public(KeyFor(a))
      t0  == Time("unix", 0, 0) IN
  { << >>,
    << OptMultiple(<< >>) >>,
    << OptAlgo(<< a >>), OptSignature(pub) >>,
    << OptSignature(pub), OptAlgo(<< a >>) >>,
    << OptSignature(pub) >>,
    << OptSignature(OtherKey(pub)) >>,
    << OptAlgo(<< >>) >>,
    << OptAlgo(<< pkg["HS256"] >>) >>,
    << OptAlgo(<< pkg["ES256K"], pkg["None"] >>) >>,
    << OptMultiple(<< OptAlgo(<< pkg["HS256"] >>), OptSignature(pub) >>),
       OptExpiresAt(t0, TRUE) >>,
    << OptTime(t0, FALSE), OptAlgo(<< a >>) >> }

Next ==
  \/ InitVar
  \/ \E v \in DOMAIN pkg : NewCall(pkg[v])
  \/ /\ Ready /\ ~live
     /\ \E c \in CraftedStrings : ParseCrafted(c)
  \/ \E kv \in ClaimInputs : PayloadSet(kv[1], kv[2])
  \/ \E r \in RawInputs : SetRawPayloadCall(r[1], r[2])
  \/ \E k \in {KeyFor(hist.alg), WrongKey(hist.alg)} : SignCall(k)
  \/ ParseOwn
  \/ /\ Len(tok.values) = 3 /\ Len(tok.values[3]) > 0
     /\ \E i \in {1, Len(tok.values[3])} :
          \E c \in Replacements(tok.values[3][i]) : ParseTampered(i, c)
  \/ \E opts \in VerifyInputs : VerifyCall(opts)

Spec == Init /\ [][Next]_vars

----------------------------------------------------------------------------
(* The time checks on their own: the registry is initialised, the token is *)
(* New(HS256) with exp and nbf claims set, signed and parsed again.         *)

InitTime ==
  /\ regpc = Len(DeclOrder) + 1
  /\ pkg = InitUpTo(Len(DeclOrder)).p
  /\ algoMap = InitUpTo(Len(DeclOrder)).map
  /\ live = FALSE
  /\ tok = ZeroToken
  /\ ops = 0
  /\ hist = NoHist
  /\ last = NoLast
  /\ DeprecatedAllowEcdsaASN1Signatures = TRUE
  /\ jwk = ZeroJWK
  /\ jcall = NoJcall
  /\ gos = NoGos

DateInputs ==
  { << k, v >> : k \in {"exp", "nbf"},
                 v \in {Int64Val(w, n) : w \in Windows, n \in Offsets} \cup {StrVal("text")} }

Times == { Time(w, n, ns) : w \in Windows, n \in Offsets, ns \in {0, 1} }

TimeInputs ==
  { << o >> : o \in UNION { {OptExpiresAt(now, req), OptNotBefore(now, req), OptTime(now, req)} :
                            now \in Times, req \in BOOLEAN } }

NextTime ==
  \/ NewCall(pkg["HS256"])
  \/ \E kv \in DateInputs : PayloadSet(kv[1], kv[2])
  \/ SignCall(HmacKey(1))
  \/ ParseOwn
  \/ /\ last.op # "Verify"
     /\ \E opts \in TimeInputs : VerifyCall(opts)

SpecTime == InitTime /\ [][NextTime]_vars

----------------------------------------------------------------------------
(* The algorithms on their own: Algo.Sign and Algo.Verify called directly,  *)
(* with keys of every type, on the signature Sign returned or on something *)
(* made of it, with DeprecatedAllowEcdsaASN1Signatures set either way.      *)

InitAlgo ==
  /\ regpc = Len(DeclOrder) + 1
  /\ pkg = InitUpTo(Len(DeclOrder)).p
  /\ algoMap = InitUpTo(Len(DeclOrder)).map
  /\ live = FALSE
  /\ tok = ZeroToken
  /\ ops = 0
  /\ hist = NoHist
  /\ last = NoLast
  /\ DeprecatedAllowEcdsaASN1Signatures \in BOOLEAN
  /\ jwk = ZeroJWK
  /\ jcall = NoJcall
  /\ gos = NoGos

Messages == { << 1, 2, 3 >>, << 1, 2, 4 >> }
Curves == {"P-224", "P-256", "P-384", "P-521", "secp256k1"}
Forms == {"raw", "trailing", "set", "one", "short", "long", "negative", "empty"}

SignKeys ==
  {HmacKey(1), RsaPriv(1), EdPriv(1), RsaPub(1), EcPub(1, "P-256")}
  \cup {EcPriv(1, c) : c \in Curves}
  \cup {EcSigner(1, c, f) : c \in {"P-224", "P-256", "P-521"}, f \in Forms}

VerifyKeys ==
  {HmacKey(1), HmacKey(2), RsaPub(1), RsaPub(2), EdPub(1), EdPub(2), RsaPriv(1), EdPriv(1)}
  \cup {EcPub(i, c) : i \in {1, 2}, c \in Curves}
  \cup {EcPriv(1, c) : c \in Curves}

\* What Verify is given: the signature as Sign returned it, its two halves as
\* an ASN.1 DER signature, that with a byte after it, the signature with its
\* last byte changed, and nothing.
Remade(sig, kind) ==
  LET der(n) == DerSignature(SubSeq(sig, 1, n), SubSeq(sig, n + 1, 2 * n)) IN
  CASE kind = "same"     -> sig
    [] kind = "asn1"     -> der(Len(sig) \div 2)
    [] kind = "trailing" -> der(Len(sig) \div 2) \o << 0 >>
    [] kind = "changed"  -> [sig EXCEPT ![Len(sig)] = (sig[Len(sig)] + 1) % 256]
    [] OTHER             -> << >>

Remakes == {"same", "asn1", "trailing", "changed", "empty"}

\* a.Sign(buf, priv), the first call of a behaviour.
AlgoSignCall(a, buf, priv) ==
  LET signed(r) ==
        /\ last' = [NoLast EXCEPT !.op = "algo.Sign", !.key = priv, !.buf = buf,
                                  !.res = r.err, !.out = r.sig, !.called = TRUE]
        /\ hist' = [NoHist EXCEPT !.alg = a, !.key = priv, !.msg = buf, !.sig = r.sig,
                                  !.clean = (r.err = "nil" /\ Len(r.sig) >= 2)] IN
  /\ last.op = "-"
  /\ signed(AlgoSign(a, buf, priv))
  /\ UNCHANGED << regpc, pkg, algoMap, live, tok, ops,
                  DeprecatedAllowEcdsaASN1Signatures, jwk, jcall, gos >>

\* a.Verify(buf, sign, pub), for the algorithm that signed.
AlgoVerifyCall(buf, kind, pub) ==
  LET verified(sign) ==
        /\ last' = [NoLast EXCEPT !.op = "algo.Verify", !.key = pub, !.buf = buf,
                                  !.out = sign, !.called = TRUE,
                                  !.res = AlgoVerify(hist.alg, buf, sign, pub)] IN
  /\ last.op = "algo.Sign" /\ hist.clean
  /\ verified(Remade(hist.sig, kind))
  /\ hist' = [hist EXCEPT !.kind = kind]
  /\ UNCHANGED << regpc, pkg, algoMap, live, tok, ops,
                  DeprecatedAllowEcdsaASN1Signatures, jwk, jcall, gos >>

\* The program sets the package variable.
SetDeprecatedAllowEcdsaASN1Signatures(b) ==
  /\ last.op # "algo.Verify"
  /\ DeprecatedAllowEcdsaASN1Signatures # b
  /\ DeprecatedAllowEcdsaASN1Signatures' = b
  /\ UNCHANGED << regpc, pkg, algoMap, live, tok, ops, hist, last, jwk, jcall, gos >>

NextAlgo ==
  \/ \E v \in DOMAIN pkg, buf \in Messages, priv \in SignKeys :
       AlgoSignCall(pkg[v], buf, priv)
  \/ \E buf \in Messages, kind \in Remakes, pub \in VerifyKeys :
       AlgoVerifyCall(buf, kind, pub)
  \/ \E b \in BOOLEAN : SetDeprecatedAllowEcdsaASN1Signatures(b)

SpecAlgo == InitAlgo /\ [][NextAlgo]_vars

----------------------------------------------------------------------------
(* A JWK on its own: a zero JWK, ApplyValues with a key object, then        *)
(* Thumbprint and Public.                                                   *)

InitJwk ==
  /\ regpc = Len(DeclOrder) + 1
  /\ pkg = InitUpTo(Len(DeclOrder)).p
  /\ algoMap = InitUpTo(Len(DeclOrder)).map
  /\ live = FALSE
  /\ tok = ZeroToken
  /\ ops = 0
  /\ hist = NoHist
  /\ last = NoLast
  /\ DeprecatedAllowEcdsaASN1Signatures = TRUE
  /\ jwk = ZeroJWK
  /\ jcall \in {[NoJcall EXCEPT !.build = b] : b \in Builds}
  /\ gos = NoGos

\* The point d*G of a curve, on coordinates of the curve's size: an ideal
\* group, in which different d of one byte give different points.
ScalarBaseMult(crv, d) ==
  LET k == IF d = << >> THEN 0 ELSE d[Len(d)] IN
  [x |-> [i \in 1..CurveSize(crv) |->
            IF i = 1 THEN (k % 4) * 40 ELSE (k * 7 + i * 13 + CurveCode(crv)) % 256],
   y |-> [i \in 1..CurveSize(crv) |->
            IF i = 1 THEN 1 + (k % 100) ELSE (k * 11 + i * 17) % 256]]

Str(b) == JV("string", EncodeToString(b))

\* Well-formed key objects: RSA keys (N = 33 = 3 * 11 with e = 3, d = 7, and
\* the degenerate N = 1), EC keys with the point of their d, an EC key with
\* the point of another d, each with and without d, and one with kid, alg
\* and use.
RsaObject(n, e) ==
  [NoValues EXCEPT !["kty"] = JV("string", "RSA"), !["n"] = Str(n), !["e"] = Str(e)]
EcObject(crv, d) ==
  [NoValues EXCEPT !["kty"] = JV("string", "EC"), !["crv"] = JV("string", crv),
                   !["x"] = Str(ScalarBaseMult(crv, d).x),
                   !["y"] = Str(ScalarBaseMult(crv, d).y)]
WithD(o, d) == [o EXCEPT !["d"] = Str(d)]

KeyObjects ==
  { RsaObject(<< 33 >>, << 3 >>), WithD(RsaObject(<< 33 >>, << 3 >>), << 7 >>),
    RsaObject(<< 1 >>, << 3 >>), WithD(RsaObject(<< 1 >>, << 3 >>), << 5 >>),
    WithD(EcObject("P-256", << 5 >>), << 6 >>),
    [EcObject("P-256", << 5 >>) EXCEPT !["kid"] = JV("string", "k1"),
                                       !["alg"] = JV("string", "ES256"),
                                       !["use"] = JV("string", "sig")] }
  \cup { EcObject(c, d) : c \in {"P-256", "P-521"}, d \in {<< 5 >>, << 4 >>} }
  \cup { WithD(EcObject(c, d), d) : c \in {"P-256", "P-521"}, d \in {<< 5 >>, << 4 >>} }

\* A member taken away or replaced: by null, a number, a []byte of the same
\* text, a text with a character outside the alphabet, with one character
\* more, with a line break in it; a name by another name.
Damaged(v, k) ==
  IF k \in NameMembers
  THEN {Absent(k), JV("nil", ""), JV("float64", ""), JV("string", "other")}
  ELSE {Absent(k), JV("nil", << >>), JV("float64", << >>), JV("[]byte", v.s),
        JV("string", v.s \o << BadChar >>),
        JV("string", v.s \o << 1 >>), JV("string", << NewLine >> \o v.s)}

JwkInputs ==
  KeyObjects \cup
  { [o EXCEPT !["crv"] = JV("string", "secp256k1")] : o \in KeyObjects }
  \cup UNION { UNION { { [o EXCEPT ![k] = v] : v \in Damaged(o[k], k) }
                       : k \in {"kty", "crv", "kid", "n", "e", "x", "y", "d"} }
               : o \in KeyObjects }

Methods == {"SHA-256", "SHA-384"}

\* jwk.ApplyValues(values), or json.Unmarshal of the object's text into jwk.
ApplyValuesCall(values) ==
  LET applied(o) ==
        /\ jwk' = o.jwk
        /\ jcall' = [jcall EXCEPT !.op = "ApplyValues", !.values = values,
                                  !.applied = o.res] IN
  /\ jcall.op = "-"
  /\ applied(ApplyValues(jwk, values, jcall.build))
  /\ UNCHANGED << regpc, pkg, algoMap, live, tok, ops, hist, last,
                  DeprecatedAllowEcdsaASN1Signatures, gos >>

\* jwk.Thumbprint(method)
ThumbprintCall(method) ==
  /\ jcall.op \in {"ApplyValues", "Public"} /\ jcall.applied # "panic"
  /\ jcall' = [jcall EXCEPT !.op = "Thumbprint", !.method = method,
                            !.thumb = Thumbprint(jwk, method)]
  /\ UNCHANGED << regpc, pkg, algoMap, live, tok, ops, hist, last,
                  DeprecatedAllowEcdsaASN1Signatures, jwk, gos >>

\* jwk.Public()
PublicCall ==
  /\ jcall.op = "ApplyValues" /\ jcall.applied # "panic"
  /\ jcall' = [jcall EXCEPT !.op = "Public", !.public = JWKPublic(jwk)]
  /\ UNCHANGED << regpc, pkg, algoMap, live, tok, ops, hist, last,
                  DeprecatedAllowEcdsaASN1Signatures, jwk, gos >>

NextJwk ==
  \/ \E values \in JwkInputs : ApplyValuesCall(values)
  \/ \E method \in Methods : ThumbprintCall(method)
  \/ PublicCall

SpecJwk == InitJwk /\ [][NextJwk]_vars

----------------------------------------------------------------------------
(* Two goroutines that each make one read call on the same parsed token,    *)
(* with no synchronisation between them.  Header() and Payload() are taken  *)
(* one access of shared memory at a time: the read of the field, the nil    *)
(* check of json.Unmarshal, the store of the new map, the store of each     *)
(* member, the read of the field for the return value, and the caller's     *)
(* read of the map.                                                         *)

Calls == {"Header", "Payload", "GetAlgo", "Verify"}

\* The fields a call decodes, in order.
Fields(call) ==
  CASE call = "Payload" -> << "payload" >>
    [] call = "Verify"  -> << "header", "payload" >>
    [] OTHER            -> << "header" >>

\* The members of a JSON object in the order of its text, as json.Unmarshal
\* stores them in the map of field f.
Stores(b, f) ==
  [i \in 1..((Len(b) - 2) \div 2) |->
     << TokenTable[b[2 * i]].s,
        IF f = "payload" THEN TokToVal(TokenTable[b[2 * i + 1]])
        ELSE IF TokenTable[b[2 * i + 1]].t = "str" THEN TokenTable[b[2 * i + 1]].s
        ELSE "" >>]

\* What base64 decoding and json.Unmarshal make of the segment of field f:
\* [set, ok, todo].
Decoding(t, f) ==
  LET parsed(b, u) ==
        [set |-> u.set, ok |-> u.err = "nil",
         todo |-> IF u.set THEN Stores(b, f) ELSE << >>]
      decoded(d) ==
        IF ~d.ok THEN [set |-> FALSE, ok |-> FALSE, todo |-> << >>]
        ELSE parsed(d.bytes, IF f = "header" THEN UnmarshalHeader(d.bytes)
                             ELSE DecodePayload(d.bytes)) IN
  decoded(DecodeString(t.values[IF f = "header" THEN 1 ELSE 2]))

\* The call of goroutine r has got the value of its field from Header() or
\* Payload(): nil or not.
Returned(r, isNil) ==
  CASE r.call = "Verify" /\ isNil ->
         [r EXCEPT !.pc = "done",
                   !.res.e = IF r.stage = 1 THEN "ErrNoHeader" ELSE "ErrNoPayload"]
    [] r.call = "Verify" /\ r.stage < Len(Fields(r.call)) ->
         [r EXCEPT !.pc = "check", !.stage = r.stage + 1]
    [] r.call = "Verify" -> [r EXCEPT !.pc = "done", !.res.e = "nil"]
    [] r.call = "GetAlgo" /\ isNil ->
         [r EXCEPT !.pc = "done", !.res.a = HeaderGetAlgo(NilHeader)]
    [] isNil -> [r EXCEPT !.pc = "done"]
    [] OTHER -> [r EXCEPT !.pc = "use"]

Access(r, loc, kind) == [r EXCEPT !.acc = @ \cup {<< loc, kind >>}]

\* go func() { tok.<call>() }()
GoCall(g, call) ==
  /\ live /\ hist.kind = "crafted"
  /\ gos.g[g].pc = "idle"
  /\ gos' = [gos EXCEPT !.t0 = IF \A i \in 1..2 : gos.g[i].pc = "idle" THEN tok ELSE @,
                        !.g[g] = IF call = "GetAlgo"
                                 THEN Access([@ EXCEPT !.pc = "check", !.call = call],
                                             "tok.algo", "r")
                                 ELSE [@ EXCEPT !.pc = "check", !.call = call]]
  /\ UNCHANGED << regpc, pkg, algoMap, live, tok, ops, hist, last,
                  DeprecatedAllowEcdsaASN1Signatures, jwk, jcall >>

\* if tok.header != nil { return tok.header }
GoCheck(g) ==
  LET r == gos.g[g]
      f == Fields(r.call)[r.stage] IN
  /\ r.pc = "check" /\ ~gos.fatal
  /\ gos' = [gos EXCEPT !.g[g] =
               IF tok[f].nil THEN Access([r EXCEPT !.pc = "decode"], "tok." \o f, "r")
               ELSE Access(Returned(r, FALSE), "tok." \o f, "r")]
  /\ UNCHANGED << regpc, pkg, algoMap, live, tok, ops, hist, last,
                  DeprecatedAllowEcdsaASN1Signatures, jwk, jcall >>

\* base64 decoding of the segment, the syntax check of json.Unmarshal and
\* its nil check of the map it decodes into.
GoDecode(g) ==
  LET r == gos.g[g]
      f == Fields(r.call)[r.stage]
      begin(d) ==
        IF ~d.set THEN Returned(r, TRUE)
        ELSE Access([r EXCEPT !.pc = IF tok[f].nil THEN "alloc"
                                     ELSE IF d.todo = << >> THEN "ret" ELSE "store",
                              !.todo = d.todo, !.ok = d.ok], "tok." \o f, "r") IN
  /\ r.pc = "decode" /\ ~gos.fatal
  /\ gos' = [gos EXCEPT !.g[g] = begin(Decoding(tok, f))]
  /\ UNCHANGED << regpc, pkg, algoMap, live, tok, ops, hist, last,
                  DeprecatedAllowEcdsaASN1Signatures, jwk, jcall >>

\* v.Set(reflect.MakeMap(t)): the field gets a new, empty map.
GoAlloc(g) ==
  LET r == gos.g[g]
      f == Fields(r.call)[r.stage] IN
  /\ r.pc = "alloc" /\ ~gos.fatal
  /\ tok' = [tok EXCEPT ![f] = IF f = "header" THEN HeaderMap(EmptyHeader)
                               ELSE PayloadMap(EmptyPayload)]
  /\ gos' = [gos EXCEPT !.g[g] =
               Access([r EXCEPT !.pc = IF r.todo = << >> THEN "ret" ELSE "store"],
                      "tok." \o f, "w")]
  /\ UNCHANGED << regpc, pkg, algoMap, live, ops, hist, last,
                  DeprecatedAllowEcdsaASN1Signatures, jwk, jcall >>

\* Whether another goroutine is between two stores into the map of field f.
Storing(g, f) ==
  \E o \in 1..2 : o # g /\ gos.g[o].pc = "store" /\ Fields(gos.g[o].call)[gos.g[o].stage] = f

\* v.SetMapIndex(key, value) on the map the field holds now.  While another
\* goroutine is writing the same map the runtime may stop the program
\* (fatal error: concurrent map writes).
GoStore(g, crash) ==
  LET r == gos.g[g]
      f == Fields(r.call)[r.stage]
      stored == Access(Access([r EXCEPT !.pc = IF Len(r.todo) = 1 THEN "ret" ELSE "store",
                                        !.todo = Tail(r.todo)], "tok." \o f, "r"),
                       f \o " map", "w") IN
  /\ r.pc = "store" /\ ~gos.fatal
  /\ crash => Storing(g, f)
  /\ tok' = IF crash THEN tok
            ELSE [tok EXCEPT ![f].m = Put(@, r.todo[1][1], r.todo[1][2])]
  /\ gos' = [gos EXCEPT !.g[g] = stored, !.fatal = crash]
  /\ UNCHANGED << regpc, pkg, algoMap, live, ops, hist, last,
                  DeprecatedAllowEcdsaASN1Signatures, jwk, jcall >>

\* if err != nil { return nil }; return tok.header
GoReturn(g) ==
  LET r == gos.g[g]
      f == Fields(r.call)[r.stage] IN
  /\ r.pc = "ret" /\ ~gos.fatal
  /\ gos' = [gos EXCEPT !.g[g] =
               IF ~r.ok THEN Returned(r, TRUE)
               ELSE Access(Returned(r, FALSE), "tok." \o f, "r")]
  /\ UNCHANGED << regpc, pkg, algoMap, live, tok, ops, hist, last,
                  DeprecatedAllowEcdsaASN1Signatures, jwk, jcall >>

\* The caller reads the map it was given: all of it after Header() and
\* Payload(), its alg member in GetAlgo.  While another goroutine is writing
\* the map the runtime may stop the program (fatal error: concurrent map
\* read and map write).
GoUse(g, crash) ==
  LET r == gos.g[g]
      f == Fields(r.call)[r.stage]
      read == CASE r.call = "GetAlgo" -> [r.res EXCEPT !.a = HeaderGetAlgo(tok.header)]
                [] r.call = "Header"  -> [r.res EXCEPT !.h = tok.header]
                [] OTHER              -> [r.res EXCEPT !.p = tok.payload] IN
  /\ r.pc = "use" /\ ~gos.fatal
  /\ crash => Storing(g, f)
  /\ gos' = [gos EXCEPT !.g[g] = Access([r EXCEPT !.pc = "done", !.res = read],
                                        f \o " map", "r"),
                        !.fatal = crash]
  /\ UNCHANGED << regpc, pkg, algoMap, live, tok, ops, hist, last,
                  DeprecatedAllowEcdsaASN1Signatures, jwk, jcall >>

\* Compact strings made elsewhere: a token with two header members and two
\* claims, one with an empty payload, and one whose header is not JSON.
SharedStrings ==
  LET h1 == Text(<< OpenTok, StrTok("alg"), StrTok("HS256"), CloseTok >>)
      h2 == Text(<< OpenTok, StrTok("alg"), StrTok("HS256"),
                    StrTok("cty"), StrTok("text"), CloseTok >>)
      p0 == Text(<< OpenTok, CloseTok >>)
      p2 == Text(<< OpenTok, StrTok("exp"), NumTok("unix", 1),
                    StrTok("iss"), StrTok("myself"), CloseTok >>) IN
  { Forged(h2, p2, pkg["HS256"], HmacKey(1)),
    Forged(h1, p0, pkg["HS256"], HmacKey(1)),
    Unsigned(Compact3(<< JunkByte >>, p0, << 0, 0 >>)) }

\* The token is parsed, the program may call Verify() on it, and then it
\* starts the goroutines.
NextShared ==
  \/ /\ ~live /\ last.op = "-"
     /\ \E c \in SharedStrings : ParseCrafted(c)
  \/ /\ last.op = "ParseString" /\ \A i \in 1..2 : gos.g[i].pc = "idle"
     /\ VerifyCall(<< >>)
  \/ \E g \in 1..2, call \in Calls : GoCall(g, call)
  \/ \E g \in 1..2 : GoCheck(g)
  \/ \E g \in 1..2 : GoDecode(g)
  \/ \E g \in 1..2 : GoAlloc(g)
  \/ \E g \in 1..2, crash \in BOOLEAN : GoStore(g, crash)
  \/ \E g \in 1..2 : GoReturn(g)
  \/ \E g \in 1..2, crash \in BOOLEAN : GoUse(g, crash)

SpecShared == InitTime /\ [][NextShared]_vars

----------------------------------------------------------------------------
(* A JWK the program makes around a key object, with or without metadata,  *)
(* written with MarshalJSON and read back with UnmarshalJSON.               *)

\* The key objects: an RSA key pair (N = 33, e = 3, d = 7) and EC key pairs,
\* each as the private key and as the public key alone.
HeldKeys ==
  LET private(k) == [PrivateKey |-> k, PublicKey |-> NilJwkKey]
      public(k) == [PrivateKey |-> NilJwkKey, PublicKey |-> k]
      ec(kt, crv, d) ==
        JwkKey(kt, crv, << >>, << >>, StripZeros(ScalarBaseMult(crv, << 5 >>).x),
               StripZeros(ScalarBaseMult(crv, << 5 >>).y), d) IN
  { private(JwkKey("*rsa.PrivateKey", "", << 33 >>, << 3 >>, << >>, << >>, << 7 >>)),
    public(JwkKey("*rsa.PublicKey", "", << 33 >>, << 3 >>, << >>, << >>, << >>)) }
  \cup { private(ec("*ecdsa.PrivateKey", crv, << 5 >>)) : crv \in {"P-256", "P-521", "secp256k1"} }
  \cup { public(ec("*ecdsa.PublicKey", crv, << >>)) : crv \in {"P-256", "P-521", "secp256k1"} }

HeldMetadata ==
  { [KeyID |-> "", Algo |-> "", Use |-> "", Ext |-> FALSE, KeyOps |-> << >>],
    [KeyID |-> "k1", Algo |-> "ES256", Use |-> "sig", Ext |-> FALSE, KeyOps |-> << >>],
    [KeyID |-> "", Algo |-> "", Use |-> "", Ext |-> TRUE, KeyOps |-> << >>],
    [KeyID |-> "", Algo |-> "", Use |-> "", Ext |-> FALSE, KeyOps |-> << "sign" >>] }

HeldJWKs ==
  { [PrivateKey |-> k.PrivateKey, PublicKey |-> k.PublicKey, KeyID |-> m.KeyID,
     Algo |-> m.Algo, Use |-> m.Use, Ext |-> m.Ext, KeyOps |-> m.KeyOps]
      : k \in HeldKeys, m \in HeldMetadata }

\* jwk := &JWK{PrivateKey: ..., PublicKey: ..., KeyID: ..., ...}
HoldCall(k) ==
  /\ jcall.op = "-"
  /\ jwk' = k
  /\ jcall' = [jcall EXCEPT !.op = "Hold"]
  /\ UNCHANGED << regpc, pkg, algoMap, live, tok, ops, hist, last,
                  DeprecatedAllowEcdsaASN1Signatures, gos >>

\* json.Marshal(jwk), then json.Unmarshal of the text into a new JWK, which
\* the program holds from now on.
MarshalUnmarshalCall ==
  LET read(r) ==
        /\ jwk' = r.jwk
        /\ jcall' = [jcall EXCEPT !.op = "MarshalUnmarshal", !.applied = r.res,
                                  !.orig = jwk] IN
  /\ jcall.op = "Hold"
  /\ read(MarshalUnmarshal(jwk, jcall.build))
  /\ UNCHANGED << regpc, pkg, algoMap, live, tok, ops, hist, last,
                  DeprecatedAllowEcdsaASN1Signatures, gos >>

NextTrip ==
  \/ \E k \in HeldJWKs : HoldCall(k)
  \/ MarshalUnmarshalCall

SpecTrip == InitJwk /\ [][NextTrip]_vars

----------------------------------------------------------------------------
(* ParseString on its own, on every string of at most MaxLen characters    *)
(* over two characters of the alphabet and the dot.                         *)

MaxLen == 4

RECURSIVE StringsOf(_)
StringsOf(n) ==
  IF n = 0 THEN {<< >>}
  ELSE {<< c >> \o s : c \in {0, 1, Dot}, s \in StringsOf(n - 1)}

ShortStrings == UNION {StringsOf(n) : n \in 0..MaxLen}

ParseAny(value) ==
  /\ ~live /\ last.op = "-"
  /\ Parsed(value, [NoHist EXCEPT !.kind = "crafted"])

NextParse == \E value \in ShortStrings : ParseAny(value)

SpecParse == InitTime /\ [][NextParse]_vars

----------------------------------------------------------------------------
(* A token made by New: SetRawPayload, Header().Set, Payload().Set and     *)
(* Sign, at most MaxOps of them, with GetRawPayload and GetContentType in  *)
(* between.                                                                 *)

\* tok.Header().Set(k, v)
HeaderSetCall(k, v) ==
  LET set(r) ==
        /\ tok' = r.t
        /\ last' = [NoLast EXCEPT !.op = "Header.Set", !.pre = tok, !.res = r.err]
        /\ hist' = [hist EXCEPT !.clean = FALSE,
                                !.cty = IF k = "cty" /\ r.err = "nil" THEN v ELSE @] IN
  /\ live /\ ops < MaxOps
  /\ set(HeaderSet(tok, k, v))
  /\ ops' = ops + 1
  /\ UNCHANGED << regpc, pkg, algoMap, live, DeprecatedAllowEcdsaASN1Signatures, jwk, jcall, gos >>

\* tok.GetRawPayload()
GetRawPayloadCall ==
  LET got(r) ==
        last' = [NoLast EXCEPT !.op = "GetRawPayload", !.pre = tok, !.res = r.err,
                               !.out = r.out] IN
  /\ live
  /\ got(GetRawPayload(tok))
  /\ UNCHANGED << regpc, pkg, algoMap, live, tok, ops, hist,
                  DeprecatedAllowEcdsaASN1Signatures, jwk, jcall, gos >>

\* tok.GetContentType()
GetContentTypeCall ==
  LET got(r) ==
        /\ tok' = r.t
        /\ last' = [NoLast EXCEPT !.op = "GetContentType", !.pre = tok, !.text = r.out] IN
  /\ live
  /\ got(GetContentType(tok))
  /\ UNCHANGED << regpc, pkg, algoMap, live, ops, hist,
                  DeprecatedAllowEcdsaASN1Signatures, jwk, jcall, gos >>

OpaqueInputs ==
  { << Text(<< StrTok("text") >>), cty >> : cty \in {"", "text", "text/plain"} }
  \cup { << << 0, JunkByte, 255 >>, "" >> }

HeaderInputs == { << "iss", "myself" >>, << "cty", "text" >>, << "alg", "none" >> }

NextOps ==
  \/ \E v \in {"HS256", "None"} : NewCall(pkg[v])
  \/ \E r \in OpaqueInputs : SetRawPayloadCall(r[1], r[2])
  \/ \E kv \in HeaderInputs : HeaderSetCall(kv[1], kv[2])
  \/ \E kv \in ClaimInputs : PayloadSet(kv[1], kv[2])
  \/ \E k \in {KeyFor(hist.alg), WrongKey(hist.alg)} : SignCall(k)
  \/ GetRawPayloadCall
  \/ GetContentTypeCall

SpecOps == InitTime /\ [][NextOps]_vars

----------------------------------------------------------------------------
(* The raw payload of a token between calls that only read it: New(HS256)   *)
(* with SetRawPayload, Sign and ParseString of the result, or ParseString   *)
(* of a string made elsewhere, then Payload(), Verify(), GetRawPayload()    *)
(* and Sign in any order.  No claim is ever set.                            *)

\* tok.Payload(), the result unused.
PayloadCall ==
  LET read(p) ==
        /\ tok' = p.t
        /\ last' = [NoLast EXCEPT !.op = "Payload", !.pre = tok,
                                  !.res = IF p.p.nil THEN "ErrNoPayload" ELSE "nil"] IN
  /\ live /\ last.op # "Payload"
  /\ read(Payload(tok))
  /\ hist' = [hist EXCEPT !.opaque = FALSE]
  /\ UNCHANGED << regpc, pkg, algoMap, live, ops, DeprecatedAllowEcdsaASN1Signatures,
                  jwk, jcall, gos >>

\* Compact strings made elsewhere with an HS256 signature: a payload with its
\* members in the order json.Marshal writes them, and one in another order.
RawStrings ==
  LET h == Text(<< OpenTok, StrTok("alg"), StrTok("HS256"), CloseTok >>)
      sorted == Text(<< OpenTok, StrTok("exp"), NumTok("unix", 1),
                        StrTok("iss"), StrTok("myself"), CloseTok >>)
      unsorted == Text(<< OpenTok, StrTok("iss"), StrTok("myself"),
                          StrTok("exp"), NumTok("unix", 1), CloseTok >>) IN
  { Forged(h, p, pkg["HS256"], HmacKey(1)) : p \in {sorted, unsorted} }

NextRaw ==
  \/ NewCall(pkg["HS256"])
  \/ \E r \in RawInputs : SetRawPayloadCall(r[1], r[2])
  \/ SignCall(HmacKey(1))
  \/ ParseOwn
  \/ /\ ~live /\ last.op = "-"
     /\ \E c \in RawStrings : ParseCrafted(c)
  \/ /\ last.op # "Verify"
     /\ VerifyCall(<< >>)
  \/ PayloadCall
  \/ GetRawPayloadCall

SpecRaw == InitTime /\ [][NextRaw]_vars

----------------------------------------------------------------------------
(* Date claims of every representation: set by the program on a token made *)
(* by New(HS256), as an int64, a float64, a string, nil or an array, then   *)
(* signed and parsed; or read from a string made elsewhere, whose exp or    *)
(* nbf is any number literal, a string, null or an array.                   *)

\* tok.Payload().GetInt(key) and tok.Payload().GetNumericDate(key)
GetNumericDateCall(key) ==
  LET got(p) ==
        /\ tok' = p.t
        /\ last' = [NoLast EXCEPT !.op = "GetNumericDate", !.pre = tok, !.text = key,
                                  !.int = GetInt(p.p, key),
                                  !.date = GetNumericDate(p.p, key)] IN
  /\ live
  /\ got(Payload(tok))
  /\ UNCHANGED << regpc, pkg, algoMap, live, ops, hist,
                  DeprecatedAllowEcdsaASN1Signatures, jwk, jcall, gos >>

DateTokens ==
  {NumList[i] : i \in 1..Len(NumList)} \cup {FloatList[i] : i \in 1..Len(FloatList)}
  \cup {StrTok("text"), NullTok, ArrTok}

DateValues ==
  {Int64Val(w, n) : w \in Windows, n \in Offsets}
  \cup {Float64Val(f, w, n) : f \in {"", "frac"}, w \in Windows, n \in Offsets}
  \cup {StrVal("text"), NilVal, ArrVal}

DatedStrings ==
  { Forged(Text(<< OpenTok, StrTok("alg"), StrTok("HS256"), CloseTok >>),
           Text(<< OpenTok, StrTok(k), v, CloseTok >>), pkg["HS256"], HmacKey(1))
      : k \in {"exp", "nbf"}, v \in DateTokens }

DateChecks ==
  { << o >> : o \in UNION { {OptExpiresAt(now, req), OptNotBefore(now, req)} :
                            now \in Times, req \in BOOLEAN } }

NextDate ==
  \/ NewCall(pkg["HS256"])
  \/ /\ hist.kind = "new" /\ ops = 0
     /\ \E k \in {"exp", "nbf"}, v \in DateValues : PayloadSet(k, v)
  \/ SignCall(HmacKey(1))
  \/ ParseOwn
  \/ /\ ~live /\ last.op = "-"
     /\ \E c \in DatedStrings : ParseCrafted(c)
  \/ \E key \in {"exp", "nbf"} : GetNumericDateCall(key)
  \/ /\ last.op # "Verify"
     /\ \E opts \in DateChecks : VerifyCall(opts)

SpecDate == InitTime /\ [][NextDate]_vars

----------------------------------------------------------------------------
(* VerifySignature with keys of every type: on tokens made by New for an   *)
(* HMAC algorithm or RS256, with or without Header().Set("alg", "HS256"),  *)
(* signed and parsed, and on strings made elsewhere whose header names an  *)
(* HMAC algorithm and whose signature is an HMAC.                           *)

\* What VerifySignature is given: a byte string, public and private key
\* objects, a *JWK and a string.
ConfusionKeys ==
  { HmacKey(1), HmacKey(2), RsaPub(1), RsaPriv(1), EcPub(1, "P-256"), EdPub(1),
    Key("*jwt.JWK", 1, "", 0), Key("string", 1, "", 0) }

ConfusedStrings ==
  { Forged(Text(<< OpenTok, StrTok("alg"), StrTok(n), CloseTok >>),
           Text(<< OpenTok, CloseTok >>), pkg[n], HmacKey(1))
      : n \in {"HS256", "HS384", "HS512"} }

NextKeys ==
  \/ \E v \in {"HS256", "HS384", "HS512", "RS256"} : NewCall(pkg[v])
  \/ /\ hist.kind = "new" /\ ops = 0
     /\ HeaderSetCall("alg", "HS256")
  \/ SignCall(KeyFor(hist.alg))
  \/ ParseOwn
  \/ /\ ~live /\ last.op = "-"
     /\ \E c \in ConfusedStrings : ParseCrafted(c)
  \/ /\ last.op # "Verify"
     /\ \E k \in ConfusionKeys : VerifyCall(<< OptSignature(k) >>)

SpecKeys == InitTime /\ [][NextKeys]_vars

----------------------------------------------------------------------------
(* Properties                                                               *)

\* The first two segments of a compact string, joined by a dot.
Seg01(value) ==
  LET join(sp) == IF Len(sp) < 2 THEN value ELSE sp[1] \o << Dot >> \o sp[2] IN
  join(SplitN(value, 3))

SigningAlgos == {pkg[v] : v \in DOMAIN pkg} \ {pkg["None"]}

\* The last call is a Verify with the single option of kind o.
VerifiedWith(o) ==
  last.op = "Verify" /\ Len(last.opts) = 1 /\ last.opts[1].o = o

\* The token is ParseString of what New(A), claims, Sign(priv) returned, with a
\* key pair that fits A, and the last call is a Verify on it.
RoundTripped ==
  /\ last.op = "Verify"
  /\ hist.kind = "own" /\ hist.clean /\ ~hist.raw
  /\ hist.alg \in SigningAlgos
  /\ hist.key = KeyFor(hist.alg)

\* C1: a token made by New(A), claims and Sign(priv), parsed from the string
\* Sign returned, passes Verify(VerifyAlgo(A), VerifySignature(pub)) with nil,
\* for every built-in signing algorithm A; VerifySignature with the key of
\* another key pair returns an error.
C1_RoundTrip ==
  RoundTripped =>
    /\ last.opts = << OptAlgo(<< hist.alg >>), OptSignature(Public(hist.key)) >>
         => last.res = "nil"
    /\ last.opts = << OptSignature(OtherKey(Public(hist.key))) >>
         => last.res \notin {"nil", "panic"}

\* C2: the message handed to the algorithm, by Sign and by signature
\* verification, is segment 0, a dot and segment 1 of the token's compact
\* string, and holds nothing of the signature segment.
C2_SigningInput ==
  /\ (last.op = "Sign" /\ last.called /\ last.res = "nil")
       => /\ last.buf = Seg01(tok.value)
          /\ last.buf = tok.values[1] \o << Dot >> \o tok.values[2]
  /\ last.op = "Verify"
       => /\ last.res # "panic"
          /\ \A i \in 1..Len(last.calls) :
               /\ last.calls[i].buf = Seg01(tok.value)
               /\ last.calls[i].buf = tok.values[1] \o << Dot >> \o tok.values[2]

\* C3: Sign on a token whose algorithm is none succeeds with any key and
\* returns a string of exactly two segments; VerifySignature on a token whose
\* algorithm is none returns an error, whatever the key and the signature
\* segment.
C3_None ==
  /\ (last.op = "Sign" /\ last.called /\ GetAlgo(last.pre).a = pkg["None"])
       => /\ last.res = "nil"
          /\ Len(SplitN(last.out, 3)) = 2
  /\ (VerifiedWith("VerifySignature") /\ GetAlgo(tok).a = pkg["None"])
       => last.res \notin {"nil", "panic"}

\* The names under which the built-in algorithms are known.
KnownNames ==
  {String(pkg[v]) : v \in DOMAIN pkg}
  \cup UNION {{Aliases(pkg[v])[i] : i \in 1..Len(Aliases(pkg[v]))} : v \in DOMAIN pkg}

\* C4: VerifyAlgo(L) returns nil only if the token's algorithm resolves and its
\* name is the name of a member of L; it returns an error for an empty L,
\* ErrInvalidToken for a token whose alg header is absent or unknown, and an
\* error for a token signed with an algorithm that is not in L.
C4_AllowList ==
  (VerifiedWith("VerifyAlgo") /\ last.res \notin {"ErrNoHeader", "ErrNoPayload"}) =>
    LET L == last.opts[1].algos
        h == tok.header.m IN
    /\ last.res = "nil" =>
         /\ GetAlgo(tok).a # NilAlgo
         /\ \E i \in 1..Len(L) : String(GetAlgo(tok).a) = String(L[i])
    /\ L = << >> => last.res # "nil"
    /\ (tok.algo = NilAlgo /\ ("alg" \notin DOMAIN h \/ h["alg"] \notin KnownNames))
         => last.res = "ErrInvalidToken"
    /\ (hist.kind = "own" /\ hist.clean /\ \A i \in 1..Len(L) : L[i] # hist.alg)
         => last.res # "nil"

\* C5: after the package-level registrations, parseAlgo(n) is nil or an
\* algorithm whose name or alias is n; the empty string and an unregistered
\* name resolve to nil; every built-in algorithm is found under its name.
C5_Resolution ==
  Ready =>
    /\ \A i \in 1..Len(Vocabulary) :
         LET n == Vocabulary[i] IN
         \/ parseAlgo(n) = NilAlgo
         \/ String(parseAlgo(n)) = n
         \/ \E j \in 1..Len(Aliases(parseAlgo(n))) : Aliases(parseAlgo(n))[j] = n
    /\ parseAlgo("") = NilAlgo
    /\ parseAlgo("XX") = NilAlgo
    /\ \A v \in DOMAIN pkg : parseAlgo(String(pkg[v])) = pkg[v]

\* C6: with one character of the signature segment of a signed token replaced
\* by another character, VerifySignature with the correct key returns an error.
C6_Tamper ==
  ( /\ VerifiedWith("VerifySignature")
    /\ hist.kind = "tampered" /\ hist.clean
    /\ hist.key = KeyFor(hist.alg)
    /\ last.opts[1].key = Public(hist.key) )
  => last.res \notin {"nil", "panic"}

\* Whether the header and payload segments of a token decode: a token made by
\* New has its header and payload from the start, a parsed token has them from
\* the segments of its string.
HeaderDecodes(t) ==
  LET clean(u) == u.err = "nil" /\ u.set
      decoded(d) == d.ok /\ clean(UnmarshalHeader(d.bytes)) IN
  t.algo # NilAlgo \/ decoded(DecodeString(t.values[1]))

PayloadDecodes(t) ==
  LET clean(u) == u.err = "nil" /\ u.set
      decoded(d) == d.ok /\ clean(DecodePayload(d.bytes)) IN
  ~t.payload.nil \/ (Len(t.values) >= 2 /\ decoded(DecodeString(t.values[2])))

\* The result of the first option of opts that fails on t, each option taken
\* on its own, and the options evaluated up to and including that one.
FirstFailure(t, opts) ==
  LET F == {i \in 1..Len(opts) : RunOption(t, opts[i]).res # "nil"} IN
  IF F = {} THEN "nil"
  ELSE RunOption(t, opts[CHOOSE i \in F : \A j \in F : i <= j]).res

RECURSIVE EvaluatedUpTo(_, _, _)
EvaluatedUpTo(t, opts, i) ==
  IF i > Len(opts) THEN << >>
  ELSE IF RunOption(t, opts[i]).res # "nil" THEN RunOption(t, opts[i]).ev
  ELSE RunOption(t, opts[i]).ev \o EvaluatedUpTo(t, opts, i + 1)

\* C7: Verify returns ErrNoHeader when the header does not decode, otherwise
\* ErrNoPayload when the payload does not decode, otherwise the error of the
\* first failing option, in argument order, evaluating no option after it, and
\* nil when every option returns nil; VerifyMultiple composes its options in
\* the same way.
C7_Pipeline ==
  last.op = "Verify" =>
    IF ~HeaderDecodes(last.pre) THEN last.res = "ErrNoHeader"
    ELSE IF ~PayloadDecodes(last.pre) THEN last.res = "ErrNoPayload"
    ELSE LET decoded(t0) ==
               /\ last.res = FirstFailure(t0, last.opts)
               /\ last.ev = EvaluatedUpTo(t0, last.opts, 1)
               /\ \A i \in 1..Len(last.opts) :
                    last.opts[i].o = "VerifyMultiple" =>
                      RunOption(t0, last.opts[i]).res = FirstFailure(t0, last.opts[i].subs) IN
         decoded(Payload(Header(last.pre).t).t)

\* What a caller can observe of a token.
Observable(t) ==
  [header |-> Header(t).h, payload |-> Payload(t).p, algo |-> GetAlgo(t).a,
   value |-> t.value]

\* C8: on a parsed token, a Verify call repeated with the same options returns
\* what the call before returned, and Verify leaves what Header(), Payload(),
\* GetAlgo() and the compact string show as it was.
C8_Idempotent ==
  (last.op = "Verify" /\ hist.kind \in {"own", "tampered", "crafted"}) =>
    /\ last.run > 1 => last.res = last.prevres
    /\ Observable(last.pre) = Observable(tok)

\* The time a claim of the payload stands for, and the comparison of two times,
\* as the properties below read them.
ClaimTime(p, key) ==
  IF p.m[key].t \in {"int64", "json.Number"} THEN Time(p.m[key].w, p.m[key].n, 0)
  ELSE Time("unix", 0, 0)

StrictlyBefore(t, u) ==
  IF t.w # u.w THEN t.w = "year1"
  ELSE IF t.n # u.n THEN t.n < u.n
  ELSE t.ns < u.ns

\* The result the time check of claim key gives for the time now: fails is
\* whether the claim's time makes it fail.
TimeRule(p, key, req, res, fails) ==
  IF p.nil \/ key \notin DOMAIN p.m
  THEN res = (IF req THEN "ErrVerifyMissing" ELSE "nil")
  ELSE /\ res \in {"nil", "ErrVerifyFailed"}
       /\ res = "ErrVerifyFailed" <=> fails

TimeComposition ==
  VerifiedWith("VerifyTime") =>
    LET rule(t0, now, req) ==
          /\ last.res = "nil" <=> /\ VerifyExpiresAt(t0, now, req).res = "nil"
                                  /\ VerifyNotBefore(t0, now, req).res = "nil"
          /\ VerifyExpiresAt(t0, now, req).res # "nil" =>
               /\ last.res = VerifyExpiresAt(t0, now, req).res
               /\ last.ev = << OptExpiresAt(now, req) >>
          /\ VerifyExpiresAt(t0, now, req).res = "nil" =>
               /\ last.res = VerifyNotBefore(t0, now, req).res
               /\ last.ev = << OptExpiresAt(now, req), OptNotBefore(now, req) >> IN
    rule(last.pre, last.opts[1].now, last.opts[1].req)

FamilyPublicType(fam) ==
  CASE fam = "hmacAlgo" -> "[]byte" [] fam = "rsaAlgo" -> "*rsa.PublicKey"
    [] fam = "ecdsaAlgo" -> "*ecdsa.PublicKey" [] OTHER -> "ed25519.PublicKey"

FamilyPrivateTypes(fam) ==
  CASE fam = "hmacAlgo" -> {"[]byte"} [] fam = "rsaAlgo" -> {"*rsa.PrivateKey"}
    [] fam = "ecdsaAlgo" -> {"*ecdsa.PrivateKey", "crypto.Signer"}
    [] OTHER -> {"ed25519.PrivateKey"}

KeyedFamilies == {"hmacAlgo", "rsaAlgo", "ecdsaAlgo", "ed25519Algo"}
PublicKeyTypes == {"[]byte", "*rsa.PublicKey", "*ecdsa.PublicKey", "ed25519.PublicKey"}

VariantCurve(a) ==
  CASE a.n = 1 -> "P-224" [] a.n = 2 -> "P-256" [] a.n = 3 -> "P-384"
    [] a.n = 4 -> "P-521" [] OTHER -> "secp256k1"

HalfLength(a) ==
  CASE a.n = 1 -> 28 [] a.n = 3 -> 48 [] a.n = 4 -> 66 [] OTHER -> 32

\* C11: Verify with a public key object of the wrong type returns an error
\* other than ErrInvalidSignature, and Sign with a private key of the wrong
\* type returns ErrInvalidSignKey, for the HMAC, RSA, ECDSA and EdDSA families.
C11_KeyType ==
  hist.alg.fam \in KeyedFamilies =>
    /\ ( /\ last.op = "algo.Verify"
         /\ last.key.kt \in PublicKeyTypes \ {FamilyPublicType(hist.alg.fam)} )
         => last.res \notin {"nil", "ErrInvalidSignature"}
    /\ ( /\ last.op = "algo.Sign"
         /\ last.key.kt \notin FamilyPrivateTypes(hist.alg.fam) )
         => last.res = "ErrInvalidSignKey"

\* C12: ecdsaAlgo.Sign and ecdsaAlgo.Verify return an error when the curve of
\* the key is not the curve of the variant (ES224 P-224, ES256 P-256, ES384
\* P-384, ES512 P-521), whichever of the two is the larger.
C12_CurveMatch ==
  ( /\ last.op \in {"algo.Sign", "algo.Verify"}
    /\ hist.alg.fam = "ecdsaAlgo" /\ hist.alg.n \in 1..4
    /\ last.key.kt \in {"*ecdsa.PrivateKey", "*ecdsa.PublicKey", "crypto.Signer"}
    /\ last.key.crv # VariantCurve(hist.alg) )
  => last.res # "nil"

\* Verify is given an ECDSA key, for a signature that Sign made with a key of
\* the variant's curve; the key and message are those that were signed with.
OnEcdsaSignature ==
  /\ last.op = "algo.Verify"
  /\ hist.alg.fam = "ecdsaAlgo"
  /\ hist.key.kt = "*ecdsa.PrivateKey" /\ hist.key.crv = VariantCurve(hist.alg)
  /\ Len(hist.sig) = 2 * HalfLength(hist.alg)
  /\ last.key.kt \in {"*ecdsa.PublicKey", "*ecdsa.PrivateKey"}

Genuine == Public(last.key) = Public(hist.key) /\ last.buf = hist.msg

\* C13: a signature of 2*digitLength bytes is verified as fixed-width r and s
\* only; a signature of another length verifies exactly when
\* DeprecatedAllowEcdsaASN1Signatures is true and it is a valid ASN.1 DER
\* signature of the message under the key, and with the flag false Verify
\* returns ErrInvalidSignatureLength.
C13_PathSelection ==
  OnEcdsaSignature =>
    IF Len(last.out) = 2 * HalfLength(hist.alg)
    THEN /\ last.res \in {"nil", "ErrInvalidSignature"}
         /\ last.res = "nil" <=> (Genuine /\ hist.kind = "same")
    ELSE /\ last.res = "nil" <=>
              (DeprecatedAllowEcdsaASN1Signatures /\ Genuine /\ hist.kind = "asn1")
         /\ ~DeprecatedAllowEcdsaASN1Signatures => last.res = "ErrInvalidSignatureLength"

\* b left-padded with zero bytes to n bytes.
Pad(b, n) == [i \in 1..(n - Len(b)) |-> 0] \o b

\* C14: a signature returned by ecdsaAlgo.Sign is 2*digitLength bytes, r and
\* s of the signer each left-padded to digitLength; Sign fails when the
\* signer's output is neither that long nor a strict DER SEQUENCE { r, s },
\* and when r or s needs more than digitLength bytes; the DER encoding of the
\* two halves of a returned signature normalises to the same bytes.
C14_Normalise ==
  ( /\ last.op = "algo.Sign"
    /\ hist.alg.fam = "ecdsaAlgo"
    /\ last.key.kt \in {"*ecdsa.PrivateKey", "crypto.Signer"} )
  => LET again(rs, ln) == rs.ok /\ last.out = Pad(rs.r, ln) \o Pad(rs.s, ln)
         rule(o, rs, ln) ==
           /\ last.res = "nil" => Len(last.out) = 2 * ln
           /\ (last.res = "nil" /\ rs.ok) => last.out = Pad(rs.r, ln) \o Pad(rs.s, ln)
           /\ (~rs.ok /\ Len(o) # 2 * ln) => last.res # "nil"
           /\ (rs.ok /\ (Len(rs.r) > ln \/ Len(rs.s) > ln)) => last.res # "nil"
           /\ (last.res = "nil" /\ Len(last.out) = 2 * ln) =>
                again(parseEcdsaSignature(DerSignature(SubSeq(last.out, 1, ln),
                                                       SubSeq(last.out, ln + 1, 2 * ln))), ln) IN
     rule(SignerOutput(last.key, ecdsaHash(hist.alg), last.buf).sig,
          parseEcdsaSignature(SignerOutput(last.key, ecdsaHash(hist.alg), last.buf).sig),
          HalfLength(hist.alg))

\* The key object without its private member, and the required public
\* members of RFC 7638 of the key it describes: e and n of an RSA key as
\* minimal big-endian integers, x and y of an EC key on the full size of the
\* curve.
PublicOnly(values) == [values EXCEPT !["d"] = Absent("d")]

Octets(values, k) == StripZeros(DecodeString(values[k].s).bytes)

Required7638(values) ==
  IF values["kty"].s = "RSA"
  THEN Members7638("RSA", "", EncodeToString(Octets(values, "e")),
                   EncodeToString(Octets(values, "n")), << >>, << >>)
  ELSE Members7638("EC", values["crv"].s, << >>, << >>,
                   EncodeToString(Pad(Octets(values, "x"), CurveSize(values["crv"].s))),
                   EncodeToString(Pad(Octets(values, "y"), CurveSize(values["crv"].s))))

\* C15: the thumbprint of a JWK parsed from a key object with d is the
\* thumbprint of the JWK parsed from the same object without d, and the hash
\* of the RFC 7638 required public members of the key, for RSA and EC keys.
C15_Thumbprint ==
  ( /\ jcall.op = "Thumbprint"
    /\ jcall.applied = "nil"
    /\ Present(jcall.values, "d") )
  => LET same(pub) ==
           /\ pub.res = "nil"
           /\ jcall.thumb = Thumbprint(pub.jwk, jcall.method) IN
     /\ same(ApplyValues(ZeroJWK, PublicOnly(jcall.values), jcall.build))
     /\ jcall.thumb = [method |-> jcall.method, of |-> Required7638(jcall.values)]

RECURSIVE PowMod(_, _, _)
PowMod(m, e, n) == IF e = 0 THEN 1 % n ELSE (m * PowMod(m, e - 1, n)) % n

\* The integer of at most one byte.
Small(b) == IF b = << >> THEN 0 ELSE b[Len(b)]

\* pub is the public key of priv: the modulus and exponent of an RSA key that
\* d inverts, the point d*G of an EC key on its curve.
Corresponds(priv, pub) ==
  CASE priv.kt = "*rsa.PrivateKey" ->
         /\ pub.kt \in {"rsa.PublicKey", "*rsa.PublicKey"}
         /\ pub.N = priv.N /\ pub.E = priv.E
         /\ \A m \in 0..(Small(priv.N) - 1) :
              PowMod(PowMod(m, Small(priv.E), Small(priv.N)), Small(priv.D), Small(priv.N)) = m
    [] priv.kt = "*ecdsa.PrivateKey" ->
         /\ pub.kt \in {"ecdsa.PublicKey", "*ecdsa.PublicKey"}
         /\ pub.crv = priv.crv
         /\ pub.X = StripZeros(ScalarBaseMult(priv.crv, priv.D).x)
         /\ pub.Y = StripZeros(ScalarBaseMult(priv.crv, priv.D).y)
    [] OTHER -> FALSE

\* C16: after ApplyValues has accepted a key object that has d, the
\* PublicKey field and the result of Public() are the public key of the
\* stored private key; an object whose public members are not those of its d
\* is therefore not accepted.
C16_Consistency ==
  ( /\ jcall.op \in {"ApplyValues", "Public"}
    /\ jcall.applied = "nil"
    /\ Present(jcall.values, "d") )
  => /\ Corresponds(jwk.PrivateKey, jwk.PublicKey)
     /\ jcall.op = "Public" => Corresponds(jwk.PrivateKey, jcall.public)

IsBase64Url(v) ==
  /\ v.t \in {"string", "[]byte"}
  /\ \A i \in 1..Len(v.s) : v.s[i] \in Sextets
  /\ Len(v.s) % 4 # 1

Malformed(values) ==
  LET rsa == values["kty"] = JV("string", "RSA")
      ec  == values["kty"] = JV("string", "EC") IN
  \/ ~Present(values, "kty")
  \/ ~rsa /\ ~ec
  \/ ec /\ (values["crv"].t # "string"
            \/ values["crv"].s \notin {"P-224", "P-256", "P-384", "P-521"})
  \/ rsa /\ (~IsBase64Url(values["n"]) \/ ~IsBase64Url(values["e"]))
  \/ ec /\ (~IsBase64Url(values["x"]) \/ ~IsBase64Url(values["y"]))
  \/ Present(values, "d") /\ ~IsBase64Url(values["d"])

\* C17: ApplyValues returns an error, and returns, for every malformed key
\* object: kty missing or neither "RSA" nor "EC", crv of an EC object
\* missing, not a string or not one of the four curves, and n, e, x, y or d
\* missing or not base64url.
C17_ParseErrors ==
  (jcall.op = "ApplyValues" /\ Malformed(jcall.values))
  => jcall.applied \notin {"nil", "panic"}

Dots(str) == Cardinality({i \in 1..Len(str) : str[i] = Dot})

RECURSIVE Join(_)
Join(parts) ==
  IF Len(parts) = 0 THEN << >>
  ELSE IF Len(parts) = 1 THEN parts[1]
  ELSE parts[1] \o << Dot >> \o Join(Tail(parts))

\* C18: ParseString returns ErrInvalidToken exactly for a string without a
\* dot; otherwise the token holds the string and 2 or 3 segments, split at the
\* first two dots, that give the string back when joined with dots, and
\* nothing of it is decoded: the token has no algorithm, header or payload.
C18_ParseStructure ==
  last.op = "ParseString" =>
    /\ last.res = "ErrInvalidToken" <=> Dots(last.out) = 0
    /\ last.res \in {"nil", "ErrInvalidToken"}
    /\ last.res = "ErrInvalidToken" => ~live
    /\ last.res = "nil" =>
         /\ live
         /\ Len(tok.values) = IF Dots(last.out) = 1 THEN 2 ELSE 3
         /\ Dots(tok.values[1]) = 0
         /\ Len(tok.values) = 3 => Dots(tok.values[2]) = 0
         /\ Join(tok.values) = last.out
         /\ tok.value = last.out
         /\ tok.algo = NilAlgo /\ tok.header.nil /\ tok.payload.nil

\* A string with more than two dots has been parsed.
C18_Witness ==
  /\ last.op = "ParseString" /\ last.res = "nil"
  /\ Len(tok.values) = 3 /\ Dots(tok.values[3]) > 0

\* The header that the first segment of a compact string encodes.
EmittedHeader(str) == UnmarshalHeader(DecodeString(SplitN(str, 3)[1]).bytes).m

\* C19: after SetRawPayload(p, cty) and no Payload() call since, the second
\* segment of what Sign returns is the base64url text of p, its header has
\* cty when cty is not empty, GetRawPayload returns p, and GetContentType
\* returns "application/jwt" for an empty cty, "application/" followed by cty
\* for a cty without a slash.
C19_Opaque ==
  hist.opaque =>
    /\ (last.op = "Sign" /\ last.res = "nil") =>
         /\ SplitN(last.out, 3)[2] = EncodeToString(hist.payload)
         /\ hist.cty # "" =>
              /\ "cty" \in DOMAIN EmittedHeader(last.out)
              /\ EmittedHeader(last.out)["cty"] = hist.cty
    /\ last.op = "GetRawPayload" => (last.res = "nil" /\ last.out = hist.payload)
    /\ last.op = "GetContentType" =>
         last.text = CASE hist.cty = ""          -> "application/jwt"
                       [] hist.cty \notin Slashed -> "application/" \o hist.cty
                       [] OTHER                  -> hist.cty

\* C20: after Sign has returned nil the token holds the returned string and
\* its segments; Header().Set and Payload().Set leave the string and the
\* segments as they were, and so does a Sign that returns an error.
C20_SignCache ==
  /\ (last.op = "Sign" /\ last.res = "nil") =>
       /\ tok.value = last.out
       /\ Len(tok.values) \in {2, 3}
       /\ Join(tok.values) = last.out
       /\ \A i \in 1..Len(tok.values) : Dots(tok.values[i]) = 0
  /\ (last.op = "Sign" /\ last.res # "nil") =>
       (tok.value = last.pre.value /\ tok.values = last.pre.values)
  /\ last.op \in {"Set", "Header.Set"} =>
       (tok.value = last.pre.value /\ tok.values = last.pre.values)

\* Header().Set has changed the header of a token that Sign had signed.
C20_Witness ==
  /\ last.op = "Header.Set" /\ last.res = "nil"
  /\ Len(tok.values) = 3 /\ Len(tok.value) > 0
  /\ tok.header # last.pre.header

\* The claim key of the payload is held as a number: an int64, a float64 or a
\* json.Number; and the integer that number truncates to.
NumericClaim(p, key) ==
  Has(p, key) /\ p.m[key].t \in {"int64", "float64", "json.Number"}
Truncated(v) == Int64(v.w, v.n)

\* C21: GetInt and GetNumericDate return the value truncated to whole seconds
\* for a claim held as an int64, a float64 or a json.Number, and on a parsed
\* token VerifyExpiresAt and VerifyNotBefore check exp and nbf against that
\* second, also when the claim is a literal with a fraction or an exponent.
C21_NumericDate ==
  /\ (last.op = "GetNumericDate" /\ NumericClaim(tok.payload, last.text)) =>
       /\ last.int = Truncated(tok.payload.m[last.text])
       /\ last.date = Unix(Truncated(tok.payload.m[last.text]))
  /\ (VerifiedWith("VerifyExpiresAt") /\ hist.kind \in {"own", "crafted"}
        /\ NumericClaim(tok.payload, "exp")) =>
       TimeRule(tok.payload, "exp", last.opts[1].req, last.res,
                \/ IsZero(Unix(Truncated(tok.payload.m["exp"])))
                \/ StrictlyBefore(Unix(Truncated(tok.payload.m["exp"])), last.opts[1].now))
  /\ (VerifiedWith("VerifyNotBefore") /\ hist.kind \in {"own", "crafted"}
        /\ NumericClaim(tok.payload, "nbf")) =>
       TimeRule(tok.payload, "nbf", last.opts[1].req, last.res,
                \/ IsZero(Unix(Truncated(tok.payload.m["nbf"])))
                \/ StrictlyBefore(last.opts[1].now, Unix(Truncated(tok.payload.m["nbf"]))))

\* The claim key of the payload is present and is no number: a string that is
\* not a number, nil, an array.
UnparsableClaim(p, key) ==
  Has(p, key) /\ p.m[key].t \in {"string", "nil", "array"}

\* C22: for an exp (nbf) that is present and cannot be read as a numeric date,
\* GetNumericDate returns the zero time and VerifyExpiresAt (VerifyNotBefore)
\* returns ErrVerifyFailed, never nil.
C22_Unparsable ==
  /\ (last.op = "GetNumericDate" /\ UnparsableClaim(tok.payload, last.text)) =>
       IsZero(last.date)
  /\ (VerifiedWith("VerifyExpiresAt") /\ UnparsableClaim(tok.payload, "exp")) =>
       last.res = "ErrVerifyFailed"
  /\ (VerifiedWith("VerifyNotBefore") /\ UnparsableClaim(tok.payload, "nbf")) =>
       last.res = "ErrVerifyFailed"

\* The JSON values of the members of a payload: an int64 and the json.Number
\* of its literal are the same value.
Encoded(p) == [nil |-> p.nil, m |-> [k \in DOMAIN p.m |-> ValToTok(p.m[k])]]

\* C23: when a Verify with a VerifySignature option returns nil, Header() and
\* Payload() of the token return what the two segments the signature was
\* verified over encode, whatever ParseString, Header().Set, Payload().Set
\* and SetRawPayload calls came before.
C23_SignedClaims ==
  (last.op = "Verify" /\ last.res = "nil" /\ last.calls # << >>) =>
    \A i \in 1..Len(last.calls) :
      /\ ParseString(last.calls[i].buf).err = "nil"
      /\ Header(tok).h = Header(ParseString(last.calls[i].buf).t).h
      /\ Encoded(Payload(tok).p) = Encoded(Payload(ParseString(last.calls[i].buf).t).p)

\* C24: for a token made by New(A), with Header().Set calls before Sign, the
\* algorithm Sign uses, which GetAlgo reports, is the one the alg member of
\* the header in the string Sign returns names, and ParseString of that
\* string resolves the same algorithm.
C24_EmittedAlg ==
  (last.op = "Sign" /\ last.res = "nil" /\ hist.kind = "new") =>
    /\ GetAlgo(last.pre).a = hist.alg
    /\ GetAlgo(tok).a = hist.alg
    /\ HeaderGet(HeaderMap(EmittedHeader(last.out)), "alg") = String(GetAlgo(last.pre).a)
    /\ GetAlgo(ParseString(last.out).t).a = GetAlgo(last.pre).a

\* C25: a token that has segments has a compact string equal to its segments
\* joined by dots, so that getSignString does not slice out of range and
\* returns segment 0, a dot and segment 1.
C25_Coherence ==
  (live /\ Len(tok.values) >= 2) =>
    /\ tok.value = Join(tok.values)
    /\ ~getSignString(tok).panic
    /\ getSignString(tok).buf = tok.values[1] \o << Dot >> \o tok.values[2]

\* Whether a VerifySignature option is in the list, also inside a
\* VerifyMultiple.
HasSignatureOption(opts) ==
  \E i \in 1..Len(opts) :
    \/ opts[i].o = "VerifySignature"
    \/ \E j \in 1..Len(opts[i].subs) : opts[i].subs[j].o = "VerifySignature"

C28_NoConfusion ==
  VerifiedWith("VerifySignature") =>
    /\ ( /\ HeaderGet(Header(last.pre).h, "alg") \in {"HS256", "HS384", "HS512"}
         /\ last.opts[1].key.kt # "[]byte" )
       => last.res \notin {"nil", "panic"}
    /\ \A i \in 1..Len(last.calls) : last.calls[i].alg = GetAlgo(last.pre).a

\* The key material of a JWK: its private key and the public key it stands
\* for.
Material(j) == [private |-> j.PrivateKey, public |-> JWKPublic(j)]

\* C29: for a JWK holding an RSA or EC key, private or public, UnmarshalJSON
\* of what MarshalJSON wrote gives a JWK with the same key material and the
\* same kid, alg, use, ext and key_ops.
C29_JwkRoundTrip ==
  jcall.op = "MarshalUnmarshal" =>
    /\ jcall.applied = "nil"
    /\ Material(jwk) = Material(jcall.orig)
    /\ jwk.KeyID = jcall.orig.KeyID
    /\ jwk.Algo = jcall.orig.Algo
    /\ jwk.Use = jcall.orig.Use
    /\ jwk.Ext = jcall.orig.Ext
    /\ jwk.KeyOps = jcall.orig.KeyOps

\* The payload bytes of the token: the bytes last given to SetRawPayload on
\* a token made by New, the decoded second segment of a token that is as
\* ParseString left it.
PayloadBytes ==
  IF hist.kind = "new" THEN hist.payload ELSE DecodeString(tok.values[2]).bytes

\* C30: GetRawPayload returns the payload bytes of the token whatever calls
\* to Payload() and Verify() came before it, and Sign on a parsed token whose
\* claims were never set writes the payload segment it was parsed with.
C30_RawStable ==
  /\ (/\ last.op = "GetRawPayload"
      /\ \/ hist.kind = "new" /\ hist.raw
         \/ hist.kind \in {"own", "crafted"} /\ hist.clean)
     => (last.res = "nil" /\ last.out = PayloadBytes)
  /\ (last.op = "Sign" /\ last.res = "nil" /\ hist.kind \in {"own", "crafted"})
     => tok.values[2] = last.pre.values[2]

\* What a call returns when it runs alone on token t: [t, r].
Alone(call, t) ==
  CASE call = "Header"  -> [t |-> Header(t).t, r |-> [NoRes EXCEPT !.h = Header(t).h]]
    [] call = "Payload" -> [t |-> Payload(t).t, r |-> [NoRes EXCEPT !.p = Payload(t).p]]
    [] call = "GetAlgo" -> [t |-> GetAlgo(t).t, r |-> [NoRes EXCEPT !.a = GetAlgo(t).a]]
    [] OTHER -> [t |-> Verify(t, << >>).t, r |-> [NoRes EXCEPT !.e = Verify(t, << >>).res]]

\* The results of the two calls when one runs after the other, in either
\* order, as << result of goroutine 1, result of goroutine 2 >>.
Sequential(c1, c2, t) ==
  { << Alone(c1, t).r, Alone(c2, Alone(c1, t).t).r >>,
    << Alone(c1, Alone(c2, t).t).r, Alone(c2, t).r >> }

\* Two accesses of the same location by different goroutines, one of them
\* a write.
Conflicting ==
  \E a \in gos.g[1].acc, b \in gos.g[2].acc :
    a[1] = b[1] /\ "w" \in {a[2], b[2]}

BothDone == \A g \in 1..2 : gos.g[g].pc = "done"

\* C27: two goroutines that call Verify, Header, Payload or GetAlgo on the
\* same freshly parsed token make no conflicting unsynchronised accesses,
\* and both get the results of a sequential execution.
C27_RaceFree ==
  (last.op = "ParseString" /\ gos.g[1].pc # "idle" /\ gos.g[2].pc # "idle") =>
    /\ ~Conflicting
    /\ ~gos.fatal
    /\ BothDone => << gos.g[1].res, gos.g[2].res >>
                     \in Sequential(gos.g[1].call, gos.g[2].call, gos.t0)

====
